---- MODULE Spec2Model ----
(***************************************************************************)
(* Model of the POI canonicalization engine (app/places/canonicalize.py)   *)
(* and of the detour ranking engine (app/detours/ranker.py,                *)
(* app/detours/corridor.py) of the memory-assistant service.               *)
(*                                                                         *)
(* Conventions.                                                            *)
(*  - A Python str is a sequence of one-character strings, so that         *)
(*    lower(), strip(), split() and the substring test `x in y` are        *)
(*    computed and not assumed.  Enumeration values (sources, reasons,     *)
(*    category keys) are TLA+ strings.                                     *)
(*  - A float in [0,1] (similarity, confidence, score) is an integer in    *)
(*    thousandths; a distance is an integer in metres; a duration is an    *)
(*    integer in hundredths of a minute; a timestamp is a day number.      *)
(*  - Python's None is the value None for an integer field, and the       *)
(*    empty sequence for a string field the code only tests for truth.     *)
(***************************************************************************)
EXTENDS Integers, Sequences, FiniteSets, TLC

None == -1

Min(a, b) == IF a <= b THEN a ELSE b
Max(a, b) == IF a >= b THEN a ELSE b

Range(s) == { s[i] : i \in DOMAIN s }

RECURSIVE SumSeq(_)
SumSeq(s) == IF s = <<>> THEN 0 ELSE Head(s) + SumSeq(Tail(s))

RECURSIVE FlattenSeq(_)
FlattenSeq(ss) == IF ss = <<>> THEN <<>> ELSE Head(ss) \o FlattenSeq(Tail(ss))

(***************************************************************************)
(* str methods                                                             *)
(***************************************************************************)
LowerChar(c) ==
    CASE c = "A" -> "a" [] c = "B" -> "b" [] c = "C" -> "c"
      [] c = "R" -> "r" [] c = "S" -> "s" [] OTHER -> c

Lower(s) == [ i \in DOMAIN s |-> LowerChar(s[i]) ]

IsSpace(c) == c = " "

RECURSIVE LStrip(_)
LStrip(s) == IF s # <<>> /\ IsSpace(Head(s)) THEN LStrip(Tail(s)) ELSE s

RECURSIVE RStrip(_)
RStrip(s) ==
    IF s # <<>> /\ IsSpace(s[Len(s)]) THEN RStrip(SubSeq(s, 1, Len(s) - 1)) ELSE s

Strip(s) == RStrip(LStrip(s))

\* needle in hay
Contains(hay, needle) ==
    \E i \in 1..(Len(hay) - Len(needle) + 1) :
        SubSeq(hay, i, i + Len(needle) - 1) = needle

\* " ".join(parts)
RECURSIVE JoinSpace(_)
JoinSpace(parts) ==
    IF parts = <<>> THEN <<>>
    ELSE IF Len(parts) = 1 THEN Head(parts)
    ELSE Head(parts) \o <<" ">> \o JoinSpace(Tail(parts))

\* s.split(): the maximal runs of non-whitespace characters, in order
RECURSIVE SplitWords(_, _)
SplitWords(s, cur) ==
    IF s = <<>> THEN (IF cur = <<>> THEN <<>> ELSE <<cur>>)
    ELSE IF IsSpace(Head(s))
         THEN (IF cur = <<>> THEN <<>> ELSE <<cur>>) \o SplitWords(Tail(s), <<>>)
         ELSE SplitWords(Tail(s), Append(cur, Head(s)))

Split(s) == SplitWords(s, <<>>)

(***************************************************************************)
(* Matching (canonicalize.py)                                              *)
(***************************************************************************)
CATEGORY_TYPE_MAP ==
    [ food |-> <<<<"r","e","s","t","a","u","r","a","n","t">>, <<"m","e","a","l","_","d","e","l","i","v","e","r","y">>, <<"m","e","a","l","_","t","a","k","e","a","w","a","y">>, <<"f","o","o","d">>>>,
      cafe |-> <<<<"c","a","f","e">>, <<"c","o","f","f","e","e">>>>,
      bar |-> <<<<"b","a","r">>, <<"n","i","g","h","t","_","c","l","u","b">>, <<"p","u","b">>>>,
      dessert |-> <<<<"b","a","k","e","r","y">>, <<"i","c","e","_","c","r","e","a","m">>, <<"d","e","s","s","e","r","t">>, <<"c","a","f","e">>>>,
      viewpoint |-> <<<<"t","o","u","r","i","s","t","_","a","t","t","r","a","c","t","i","o","n">>, <<"p","a","r","k">>, <<"p","o","i","n","t","_","o","f","_","i","n","t","e","r","e","s","t">>, <<"n","a","t","u","r","a","l","_","f","e","a","t","u","r","e">>>>,
      shop |-> <<<<"s","t","o","r","e">>, <<"s","h","o","p">>, <<"s","h","o","p","p","i","n","g","_","m","a","l","l">>, <<"m","a","r","k","e","t">>>> ]

\* difflib.SequenceMatcher.find_longest_match on a[alo..ahi], b[blo..bhi]
\* (bounds inclusive): the longest common block, of those the one starting
\* earliest in a, of those the one starting earliest in b; <<alo, blo, 0>>
\* when nothing matches.
FindLongestMatch(a, b, alo, ahi, blo, bhi) ==
    LET blocks == { t \in (alo..ahi) \X (blo..bhi) \X (1..Len(a)) :
                      /\ t[1] + t[3] - 1 <= ahi
                      /\ t[2] + t[3] - 1 <= bhi
                      /\ SubSeq(a, t[1], t[1] + t[3] - 1) = SubSeq(b, t[2], t[2] + t[3] - 1) }
        Better(s, t) == \/ s[3] > t[3]
                        \/ s[3] = t[3] /\ s[1] < t[1]
                        \/ s[3] = t[3] /\ s[1] = t[1] /\ s[2] < t[2]
    IN  IF blocks = {} THEN <<alo, blo, 0>>
        ELSE CHOOSE s \in blocks : \A t \in blocks \ {s} : Better(s, t)

\* The total size of SequenceMatcher.get_matching_blocks: the longest match,
\* then recursively the pieces to its left and to its right.
RECURSIVE MatchingSize(_, _, _, _, _, _)
MatchingSize(a, b, alo, ahi, blo, bhi) ==
    IF alo > ahi \/ blo > bhi THEN 0
    ELSE LET m == FindLongestMatch(a, b, alo, ahi, blo, bhi)
         IN  IF m[3] = 0 THEN 0
             ELSE m[3] + MatchingSize(a, b, alo, m[1] - 1, blo, m[2] - 1)
                       + MatchingSize(a, b, m[1] + m[3], ahi, m[2] + m[3], bhi)

\* SequenceMatcher(None, a, b).ratio() = 2.0 * M / T, in thousandths
Ratio(a, b) ==
    IF Len(a) + Len(b) = 0 THEN 1000
    ELSE (2000 * MatchingSize(a, b, 1, Len(a), 1, Len(b))) \div (Len(a) + Len(b))

name_similarity(a, b) ==
    LET a_clean == Strip(Lower(a))
        b_clean == Strip(Lower(b))
    IN  IF a_clean = <<>> \/ b_clean = <<>> THEN 0 ELSE Ratio(a_clean, b_clean)

category_match_score(candidate_category, google_types) ==
    LET expected_types == IF candidate_category \in DOMAIN CATEGORY_TYPE_MAP
                          THEN CATEGORY_TYPE_MAP[candidate_category] ELSE <<>>
    IN  IF expected_types = <<>> THEN 500
        ELSE IF \E i \in DOMAIN google_types : \E j \in DOMAIN expected_types :
                    Contains(Lower(google_types[i]), expected_types[j])
             THEN 1000 ELSE 0

(***************************************************************************)
(* Coordinates.  A (lat, lng) pair is one of a few named points; the       *)
(* tables hold what the source's floating-point expressions return on      *)
(* them, rounded to the unit named.                                        *)
(***************************************************************************)
Points == {"O", "D", "M", "N", "E", "X", "F"}

\* math-library results of haversine_km on the named points, in metres
\* O = (35.6812, 139.7671), D = (35.6580, 139.7016), M = (35.6700, 139.7350),
\* N = (35.6900, 139.7600), E = (35.6850, 139.7300), X = (35.6950, 139.7100),
\* F = (35.7500, 139.8000)
HaversineTable ==
    [ O |-> [O |-> 0, D |-> 6455, M |-> 3156, N |-> 1170, E |-> 3377, X |-> 5380, F |-> 8207],
      D |-> [O |-> 6455, D |-> 0, M |-> 3299, N |-> 6363, E |-> 3949, X |-> 4184, F |-> 13550],
      M |-> [O |-> 3156, D |-> 3299, M |-> 0, N |-> 3169, E |-> 1728, X |-> 3581, F |-> 10657],
      N |-> [O |-> 1170, D |-> 6363, M |-> 3169, N |-> 0, E |-> 2766, X |-> 4550, F |-> 7586],
      E |-> [O |-> 3377, D |-> 3949, M |-> 1728, N |-> 2766, E |-> 0, X |-> 2121, F |-> 9601],
      X |-> [O |-> 5380, D |-> 4184, M |-> 3581, N |-> 4550, E |-> 2121, X |-> 0, F |-> 10169],
      F |-> [O |-> 8207, D |-> 13550, M |-> 10657, N |-> 7586, E |-> 9601, X |-> 10169, F |-> 0] ]

haversine_km(p, q) == HaversineTable[p][q]

\* proximity = max(0.0, 1.0 - dist / 50.0), dist in km; here in thousandths
\* from a distance in metres
ProximityFromDistance(dist_m) == Max(0, 1000 - dist_m \div 50)

\* score_match: ns * 0.5 + cs * 0.3 + proximity * 0.2.  location_bias is a
\* point, or "" for None; every named point has a non-zero lat and lng.
score_match(candidate_name, candidate_category, place, location_bias) ==
    LET ns == name_similarity(candidate_name, place.name)
        cs == category_match_score(candidate_category, place.types)
        proximity == IF location_bias # ""
                     THEN ProximityFromDistance(haversine_km(location_bias, place.loc))
                     ELSE 500
    IN  (ns * 5 + cs * 3 + proximity * 2) \div 10

(***************************************************************************)
(* Aggregation (canonicalize.py)                                           *)
(***************************************************************************)
\* The distinct elements of a sequence, in first-seen order (the key order
\* of a Counter filled in that order).
RECURSIVE FirstSeen(_, _)
FirstSeen(items, seen) ==
    IF items = <<>> THEN seen
    ELSE FirstSeen(Tail(items),
                   IF Head(items) \in Range(seen) THEN seen ELSE Append(seen, Head(items)))

CountOf(items, x) == Cardinality({ i \in DOMAIN items : items[i] = x })

\* a most_common that keeps the keys in first-seen order
most_commonFirstSeen(items, n) ==
    LET keys == FirstSeen(items, <<>>)
    IN  SubSeq(keys, 1, Min(n, Len(keys)))

\* Counter(items).most_common(n): by descending count, equal counts in
\* first-seen order, the first n.
most_common(items, n) ==
    LET keys == FirstSeen(items, <<>>)
        Before(i, j) == \/ CountOf(items, keys[i]) > CountOf(items, keys[j])
                        \/ CountOf(items, keys[i]) = CountOf(items, keys[j]) /\ i < j
        rank(i) == Cardinality({ j \in DOMAIN keys : Before(j, i) })
        sorted == [ k \in DOMAIN keys |-> keys[CHOOSE i \in DOMAIN keys : rank(i) = k - 1] ]
    IN  SubSeq(sorted, 1, Min(n, Len(sorted)))

\* a compute_aggregate that appends every non-empty why_special
compute_aggregateNoDedup(signals) ==
    LET sj(i) == signals[i].signal_json
        whys == FlattenSeq([ i \in DOMAIN signals |->
                    IF sj(i).why_special # <<>> THEN <<sj(i).why_special>> ELSE <<>> ])
        srcs == { signals[i].source : i \in DOMAIN signals }
    IN  [ top_vibe_tags |-> most_common(FlattenSeq([ i \in DOMAIN signals |-> sj(i).vibe_tags ]), 10),
          top_what_to_order |-> most_common(FlattenSeq([ i \in DOMAIN signals |-> sj(i).what_to_order ]), 10),
          warnings |-> UNION { Range(sj(i).warnings) : i \in DOMAIN signals },
          why_special_snippets |-> SubSeq(whys, 1, Min(5, Len(whys))),
          best_time_windows |-> most_common(FlattenSeq([ i \in DOMAIN signals |-> sj(i).best_time_windows ]), 5),
          sources_count |-> [ s \in srcs |->
              Cardinality({ i \in DOMAIN signals : signals[i].source = s }) ],
          total_mentions |-> Len(signals) ]

\* signals: the POISignal rows of one POI, in the order the query gave them.
\* list(warnings_set) has no defined order: warnings is kept as a set.
compute_aggregate(signals) ==
    LET sj(i) == signals[i].signal_json
        vibes == FlattenSeq([ i \in DOMAIN signals |-> sj(i).vibe_tags ])
        orders == FlattenSeq([ i \in DOMAIN signals |-> sj(i).what_to_order ])
        windows == FlattenSeq([ i \in DOMAIN signals |-> sj(i).best_time_windows ])
        whys == FlattenSeq([ i \in DOMAIN signals |->
                    IF sj(i).why_special # <<>> THEN <<sj(i).why_special>> ELSE <<>> ])
        why_snippets == FirstSeen(whys, <<>>)
        srcs == { signals[i].source : i \in DOMAIN signals }
    IN  [ top_vibe_tags |-> most_common(vibes, 10),
          top_what_to_order |-> most_common(orders, 10),
          warnings |-> UNION { Range(sj(i).warnings) : i \in DOMAIN signals },
          why_special_snippets |-> SubSeq(why_snippets, 1, Min(5, Len(why_snippets))),
          best_time_windows |-> most_common(windows, 5),
          sources_count |-> [ s \in srcs |->
              Cardinality({ i \in DOMAIN signals : signals[i].source = s }) ],
          total_mentions |-> Len(signals) ]

\* math.log(1 + mentions), in thousandths
LogTable == <<693, 1099, 1386, 1609, 1792, 1946, 2079, 2197, 2303>>

\* compute_score(signals, aggregate) evaluated at day `now`; thousandths.
compute_score(signals, now) ==
    IF signals = <<>> THEN 0
    ELSE LET mentions == Len(signals)
             mention_score == LogTable[mentions] * 2
             avg_confidence ==
                 SumSeq([ i \in DOMAIN signals |-> signals[i].confidence ]) \div mentions
             newest == CHOOSE d \in { signals[i].created_at : i \in DOMAIN signals } :
                           \A i \in DOMAIN signals : signals[i].created_at <= d
             age_days == now - newest
             recency_bonus == Max(0, 1000 - (age_days * 1000) \div 365)
         IN  mention_score + avg_confidence + recency_bonus

(***************************************************************************)
(* The inputs the model draws from                                         *)
(***************************************************************************)
MaxCalls == 2
MaxExtractions == 2
MaxTicks == 1

\* the request handlers that may run canonicalize_post at the same time
Workers == 1..2

\* the stored social posts and SocialPost.source of each
Posts == {"p1", "p2"}
PostSource == [p1 |-> "xhs", p2 |-> "reddit"]

\* days one step of the clock advances
TickDays == 200

\* match_threshold values a caller passes (0.55 is the default)
Thresholds == {550, 750}

CandRamen ==
    [ place_name |-> <<"a","b">>, city_hint |-> <<"t","k">>, landmark_hint |-> <<"l","m">>,
      address_hint |-> <<>>, category |-> "food",
      vibe_tags |-> <<<<"s","p","i","c","y">>>>,
      what_to_order |-> <<<<"r","a","m","e","n">>>>,
      why_special |-> <<"w","1">>, warnings |-> <<<<"q","u","e","u","e">>>>,
      best_time_windows |-> <<<<"l","u","n","c","h">>>>,
      price_level_hint |-> 2, confidence |-> 920 ]

CandRamen2 ==
    [ place_name |-> <<"a","B">>, city_hint |-> <<>>, landmark_hint |-> <<>>,
      address_hint |-> <<"a","d">>, category |-> "food",
      vibe_tags |-> <<<<"q","u","i","e","t">>, <<"s","p","i","c","y">>>>,
      what_to_order |-> <<<<"g","y","o","z","a">>>>,
      why_special |-> <<"w","2">>, warnings |-> <<<<"q","u","e","u","e">>, <<"c","a","s","h">>>>,
      best_time_windows |-> <<>>,
      price_level_hint |-> None, confidence |-> 600 ]

CandOther ==
    [ place_name |-> <<"a","c">>, city_hint |-> <<>>, landmark_hint |-> <<"l","m">>,
      address_hint |-> <<"a","d">>, category |-> "other",
      vibe_tags |-> <<>>, what_to_order |-> <<>>, why_special |-> <<>>,
      warnings |-> <<>>, best_time_windows |-> <<>>,
      price_level_hint |-> None, confidence |-> 500 ]

CandNoName == [ CandOther EXCEPT !.place_name = <<>> ]

\* the candidate lists an extraction of each post may hold
ExtractionPool ==
    [ p1 |-> { <<CandRamen>>, <<CandRamen, CandOther>> },
      p2 |-> { <<>>, <<CandNoName, CandRamen2>> } ]

PlaceGood ==
    [ place_id |-> "g1", name |-> <<"A","b"," ">>, loc |-> "M", address |-> <<"a","1">>,
      types |-> <<<<"r","e","s","t","a","u","r","a","n","t">>, <<"f","o","o","d">>>>,
      rating |-> 45, user_ratings_total |-> 10, price_level |-> 2 ]

PlaceFar ==
    [ place_id |-> "g2", name |-> <<"x","y">>, loc |-> "F", address |-> <<>>,
      types |-> <<<<"p","a","r","k","i","n","g">>>>,
      rating |-> None, user_ratings_total |-> None, price_level |-> None ]

PlaceCafe ==
    [ place_id |-> "g3", name |-> <<"a","c">>, loc |-> "N", address |-> <<"a","3">>,
      types |-> <<<<"C","a","f","e">>>>,
      rating |-> 40, user_ratings_total |-> 3, price_level |-> None ]

NoPlace ==
    [ place_id |-> "", name |-> <<>>, loc |-> "O", address |-> <<>>, types |-> <<>>,
      rating |-> None, user_ratings_total |-> None, price_level |-> None ]

\* what places_client.search_text may do: raise, or return a result list
SearchOutcomes ==
    { [raises |-> TRUE, results |-> <<>>] } \cup
    { [raises |-> FALSE, results |-> r] :
        r \in { <<>>, <<PlaceGood>>, <<PlaceFar, PlaceGood>>, <<PlaceCafe>> } }

(***************************************************************************)
(* State                                                                   *)
(***************************************************************************)
VARIABLES
    social_extractions,  \* post -> its SocialExtraction rows' candidate lists, oldest first
    pois,                \* committed rows of table pois
    poi_signals,         \* committed rows of table poi_signals
    poi_aggregates,      \* committed rows of table poi_aggregates
    now,                 \* datetime.utcnow(), in days
    next_id,             \* the next fresh primary key (uuid4)
    calls,               \* canonicalize_post calls started
    sess,                \* worker -> its canonicalize_post call and open transaction
    detour,              \* the last suggest_detours call: its arguments and what it did
    fetch,               \* the last _fetch_detour_candidates call and what it returned
    calc,                \* the last call of a pure function: input and outcome
    seed,                \* the process_seed_file run: its arguments, summary and writes
    gate                 \* the last evaluate_candidates call: its arguments and result

vars ==
    <<social_extractions, pois, poi_signals, poi_aggregates, now, next_id, calls, sess,
      detour, fetch, calc, seed, gate>>

db == <<social_extractions, pois, poi_signals, poi_aggregates, now, next_id>>

IdleSession ==
    [ pc |-> "idle", post |-> "", threshold |-> 0, ext_no |-> 0, candidates |-> <<>>,
      idx |-> 0, linked |-> <<>>, unmatched |-> <<>>, error |-> "",
      search_calls |-> <<>>, best_place |-> NoPlace, best_score |-> 0, poi_id |-> 0,
      new_pois |-> {}, new_signals |-> {}, agg_writes |-> {}, alone |-> TRUE ]

\* no suggest_detours call was made yet
NoDetour ==
    [ called |-> FALSE, args |-> <<>>, rows |-> <<>>, results |-> <<>>, shortlist |-> <<>>,
      details_calls |-> <<>>, memory_calls |-> <<>>, bbox_pois_count |-> 0,
      corridor_candidates |-> 0 ]

\* IngestSummary() as the dataclass builds it
IngestSummary ==
    [ total_rows |-> 0, skipped_rows |-> 0, inserted_posts |-> 0, extracted_posts |-> 0,
      extraction_failures |-> 0, canonicalized_candidates |-> 0, created_pois |-> 0,
      linked_pois |-> 0, unmatched_candidates |-> 0, errors |-> <<>> ]

\* process_seed_file was not called yet
NoSeed ==
    [ started |-> FALSE, done |-> FALSE, file |-> <<>>, source_filter |-> "", limit |-> None,
      dry_run |-> FALSE, skip_extract |-> FALSE, skip_canonicalize |-> FALSE,
      rows |-> <<>>, i |-> 0, summary |-> IngestSummary, attempted |-> <<>>,
      worlds |-> <<>>, posts |-> <<>>, extractions |-> <<>>, canon_calls |-> <<>> ]

\* evaluate_candidates was not called yet
NoGate ==
    [ done |-> FALSE, candidates |-> <<>>, existing_texts |-> <<>>, approved |-> <<>>,
      rejected |-> <<>>, existing_after |-> <<>> ]

\* no aggregation call was made yet
NoCalc == [ done |-> FALSE, signals |-> <<>> ]

\* no _fetch_detour_candidates call was made yet
NoFetch ==
    [ done |-> FALSE, location |-> <<>>, suggest |-> "not_called", message |-> "",
      results |-> <<>>, reason |-> "None", propagated |-> FALSE ]

Init ==
    /\ social_extractions = [ p \in Posts |-> <<>> ]
    /\ pois = {}
    /\ poi_signals = {}
    /\ poi_aggregates = {}
    /\ now = 0
    /\ next_id = 1
    /\ calls = 0
    /\ sess = [ w \in Workers |-> IdleSession ]
    /\ detour = NoDetour
    /\ fetch = NoFetch
    /\ calc = NoCalc
    /\ seed = NoSeed
    /\ gate = NoGate

(***************************************************************************)
(* canonicalize_post                                                       *)
(***************************************************************************)
\* all orders in which a query without ORDER BY may return a set of rows
RECURSIVE RowOrders(_)
RowOrders(S) ==
    IF S = {} THEN { <<>> }
    ELSE UNION { { <<x>> \o rest : rest \in RowOrders(S \ {x}) } : x \in S }

\* place_name plus the first non-empty hint among city, landmark, address
BuildQuery(candidate) ==
    LET query_parts ==
            <<candidate.place_name>> \o
            ( IF candidate.city_hint # <<>> THEN <<candidate.city_hint>>
              ELSE IF candidate.landmark_hint # <<>> THEN <<candidate.landmark_hint>>
              ELSE IF candidate.address_hint # <<>> THEN <<candidate.address_hint>>
              ELSE <<>> )
    IN  JoinSpace(query_parts)

\* BestMatch stopping at the first result
BestMatchFirstOnly(candidate, search_results, i, best) ==
    IF search_results = <<>> THEN best
    ELSE [ best_place |-> search_results[1],
           best_score |-> score_match(candidate.place_name, candidate.category,
                                      search_results[1], "") ]

\* the scoring loop: best_place (NoPlace for None) and best_score after the
\* results from position i on, starting from `best`
RECURSIVE BestMatch(_, _, _, _)
BestMatch(candidate, search_results, i, best) ==
    IF i > Len(search_results) THEN best
    ELSE LET s == score_match(candidate.place_name, candidate.category,
                              search_results[i], "")
         IN  BestMatch(candidate, search_results, i + 1,
                       IF s > best.best_score
                       THEN [best_place |-> search_results[i], best_score |-> s]
                       ELSE best)

\* `if best_score < match_threshold or best_place is None`
BelowThreshold(best, match_threshold) ==
    best.best_score < match_threshold \/ best.best_place = NoPlace

\* select(POI).where(provider == google, provider_place_id == ...): the id
\* of the row, 0 for None
FindPOI(rows, place_id) ==
    IF \E r \in rows : r.provider = "google" /\ r.provider_place_id = place_id
    THEN (CHOOSE r \in rows : r.provider = "google" /\ r.provider_place_id = place_id).id
    ELSE 0

\* UniqueViolation without the unique index
UniqueViolationNoIndex(rows, provider, place_id) == FALSE

\* unique index ix_pois_provider_place_id: inserting (provider, place id)
\* fails when a committed row holds the pair
UniqueViolation(rows, provider, place_id) ==
    \E r \in rows : r.provider = provider /\ r.provider_place_id = place_id

\* the same index makes an insert wait while another open transaction holds
\* an uncommitted row with the pair
KeyHeldByOther(w, provider, place_id) ==
    \E w2 \in Workers \ {w} :
        \E r \in sess[w2].new_pois :
            r.provider = provider /\ r.provider_place_id = place_id

\* read committed: a transaction sees the committed rows and its own
VisiblePois(w) == pois \cup sess[w].new_pois
VisibleSignals(w) == poi_signals \cup sess[w].new_signals

\* LatestExtraction taking a missing extraction for an empty one
LatestExtractionOrEmpty(exts) ==
    IF exts = <<>> THEN [ found |-> TRUE, ext_no |-> 0, candidates |-> <<>> ]
    ELSE [ found |-> TRUE, ext_no |-> Len(exts), candidates |-> exts[Len(exts)] ]

\* select(SocialExtraction) ... order_by(created_at.desc()).limit(1)
\* .scalar_one_or_none(): the newest extraction of the post, if any
LatestExtraction(exts) ==
    IF exts = <<>> THEN [ found |-> FALSE, ext_no |-> 0, candidates |-> <<>> ]
    ELSE [ found |-> TRUE, ext_no |-> Len(exts), candidates |-> exts[Len(exts)] ]

\* a canonicalize_post call is between its first query and its commit
Running(s) == s.pc \in {"loop", "accepted"}

\* step 1: load the latest extraction.  Workers are interchangeable: a call
\* is taken by the lowest-numbered free worker; at most max_calls calls are
\* made.  alone: no other call was running at any time during the call.
StartCall(w, p, th, max_calls) ==
    /\ sess[w].pc = "idle"
    /\ \A w0 \in Workers : w0 < w => sess[w0].pc # "idle"
    /\ calls < max_calls
    /\ calls' = calls + 1
    /\ LET extraction == LatestExtraction(social_extractions[p])
           alone == \A w2 \in Workers \ {w} : ~Running(sess[w2])
           started ==
               IF ~extraction.found
               THEN [ IdleSession EXCEPT !.pc = "returned", !.post = p, !.threshold = th,
                                         !.error = "No extraction found" ]
               ELSE [ IdleSession EXCEPT !.pc = "loop", !.post = p, !.threshold = th,
                                         !.ext_no = extraction.ext_no,
                                         !.candidates = extraction.candidates, !.idx = 1,
                                         !.alone = alone ]
       IN  sess' = [ w2 \in Workers |->
               IF w2 = w THEN started
               ELSE IF Running(sess[w2]) /\ Running(started)
                    THEN [ sess[w2] EXCEPT !.alone = FALSE ]
               ELSE sess[w2] ]
    /\ UNCHANGED <<db, detour, fetch, calc, seed, gate>>

CanonicalizeCall(w, p, th) == StartCall(w, p, th, MaxCalls)

\* HasPlaceName without the skip
HasPlaceNameAlways(candidate) == TRUE

\* `if not place_name: continue`
HasPlaceName(candidate) == candidate.place_name # <<>>

\* the unmatched entry of the candidate at s.idx, and `continue`
Unmatched(s, reason, score) ==
    [ s EXCEPT !.unmatched = Append(@, [ candidate |-> s.candidates[s.idx], reason |-> reason,
                                         best_score |-> score, idx |-> s.idx ]),
               !.idx = @ + 1 ]

\* OnSearchError dropping the candidate without recording it
OnSearchErrorSilent(s) == [ s EXCEPT !.idx = @ + 1 ]

\* OnSearchError without the try/except: the exception leaves the call
OnSearchErrorPropagates(s) ==
    [ s EXCEPT !.pc = "raised", !.error = "search failed", !.linked = <<>>,
               !.unmatched = <<>>, !.new_pois = {}, !.new_signals = {}, !.agg_writes = {} ]

\* `except Exception as e:` around search_text
OnSearchError(s) == Unmatched(s, "search_error", None)

\* the session after places_client.search_text answered `outcome` for the
\* candidate at s.idx: lines 156-200
AfterSearch(s, outcome, visible_pois) ==
    LET candidate == s.candidates[s.idx]
        call == [ query |-> BuildQuery(candidate), location_bias |-> "",
                  max_results |-> 3, idx |-> s.idx, outcome |-> outcome ]
        s1 == [ s EXCEPT !.search_calls = Append(@, call) ]
        best == BestMatch(candidate, outcome.results, 1,
                          [best_place |-> NoPlace, best_score |-> 0])
    IN  IF outcome.raises THEN OnSearchError(s1)
        ELSE IF outcome.results = <<>> THEN Unmatched(s1, "no_results", None)
        ELSE IF BelowThreshold(best, s.threshold)
             THEN Unmatched(s1, "below_threshold", best.best_score)
        ELSE [ s1 EXCEPT !.pc = "accepted",
                         !.best_place = best.best_place,
                         !.best_score = best.best_score,
                         !.poi_id = FindPOI(visible_pois, best.best_place.place_id) ]

\* one pass of the loop up to the POI lookup: lines 136-200
SearchCandidate(w) ==
    /\ sess[w].pc = "loop"
    /\ sess[w].idx <= Len(sess[w].candidates)
    /\ IF ~HasPlaceName(sess[w].candidates[sess[w].idx])
       THEN sess' = [ sess EXCEPT ![w].idx = @ + 1 ]
       ELSE \E outcome \in SearchOutcomes :
                sess' = [ sess EXCEPT ![w] = AfterSearch(sess[w], outcome, VisiblePois(w)) ]
    /\ UNCHANGED <<db, calls, detour, fetch, calc, seed, gate>>

NewPOI(id, place, t) ==
    [ id |-> id, provider |-> "google", provider_place_id |-> place.place_id,
      name |-> place.name, loc |-> place.loc, address |-> place.address,
      categories |-> place.types, price_level |-> place.price_level,
      rating |-> place.rating, user_ratings_total |-> place.user_ratings_total,
      created_at |-> t, updated_at |-> t ]

\* a POI row written for every accepted match, found or not
PoiWritesUpsert(insert, poi_id, place, t) == { NewPOI(poi_id, place, t) }

\* `if not poi: poi = POI(...); db.add(poi)`: a POI row is written only when
\* the lookup found none
PoiWrites(insert, poi_id, place, t) == IF insert THEN { NewPOI(poi_id, place, t) } ELSE {}

\* a signal that names another POI than the one it was made for
NewSignalOrphan(id, poi_id, post, candidate, link, t) ==
    [ id |-> id, poi_id |-> poi_id + 100, source |-> PostSource[post], social_post_id |-> post,
      signal_json |-> [ vibe_tags |-> candidate.vibe_tags,
                        what_to_order |-> candidate.what_to_order,
                        why_special |-> candidate.why_special,
                        warnings |-> candidate.warnings,
                        best_time_windows |-> candidate.best_time_windows,
                        price_level_hint |-> candidate.price_level_hint,
                        category |-> candidate.category ],
      confidence |-> candidate.confidence, created_at |-> t, link |-> link ]

\* link: <<extraction number, candidate index>>, the extraction candidate the
\* signal was made from (not a column; kept to tell the links apart)
NewSignal(id, poi_id, post, candidate, link, t) ==
    [ id |-> id, poi_id |-> poi_id, source |-> PostSource[post], social_post_id |-> post,
      signal_json |-> [ vibe_tags |-> candidate.vibe_tags,
                        what_to_order |-> candidate.what_to_order,
                        why_special |-> candidate.why_special,
                        warnings |-> candidate.warnings,
                        best_time_windows |-> candidate.best_time_windows,
                        price_level_hint |-> candidate.price_level_hint,
                        category |-> candidate.category ],
      confidence |-> candidate.confidence, created_at |-> t, link |-> link ]

\* UpdateAggregate adding the new count to the stored aggregate's
UpdateAggregateMerging(poi_id, signals, own_writes, committed, t) ==
    LET old == { a \in own_writes \cup committed : a.poi_id = poi_id }
        fresh == compute_aggregate(signals)
    IN  [ poi_id |-> poi_id,
          aggregate_json |->
              IF old = {} THEN fresh
              ELSE [ fresh EXCEPT !.total_mentions =
                         @ + (CHOOSE a \in old : TRUE).aggregate_json.total_mentions ],
          score |-> compute_score(signals, t), updated_at |-> t,
          op |-> IF old = {} THEN "insert" ELSE "update" ]

\* _update_aggregate: the aggregate row written for poi_id from the signals
\* the query returned; op tells an INSERT from an UPDATE of the row
\* db.get(POIAggregate, poi_id) found (in the session first, else committed).
UpdateAggregate(poi_id, signals, own_writes, committed, t) ==
    LET existing == \E a \in own_writes \cup committed : a.poi_id = poi_id
        own == { a \in own_writes : a.poi_id = poi_id }
        op == IF own # {} THEN (CHOOSE a \in own : TRUE).op
              ELSE IF existing THEN "update" ELSE "insert"
    IN  [ poi_id |-> poi_id, aggregate_json |-> compute_aggregate(signals),
          score |-> compute_score(signals, t), updated_at |-> t, op |-> op ]

\* Rollback that leaves the flushed rows with the session
RollbackKeepsWrites(s, error) == [ s EXCEPT !.pc = "raised", !.error = error ]

\* the exception leaves canonicalize_post and the caller rolls the
\* transaction back (routes.py: get_db closes the session; seed_ingest.py
\* 225-228: db.rollback())
Rollback(s, error) ==
    [ s EXCEPT !.pc = "raised", !.error = error, !.linked = <<>>, !.unmatched = <<>>,
               !.new_pois = {}, !.new_signals = {}, !.agg_writes = {} ]

\* the rest of the pass for an accepted match: lines 202-245
LinkCandidate(w) ==
    LET s == sess[w]
        place == s.best_place
        insert == s.poi_id = 0
        poi_id == IF insert THEN next_id ELSE s.poi_id
        signal_id == IF insert THEN next_id + 1 ELSE next_id
        signal == NewSignal(signal_id, poi_id, s.post, s.candidates[s.idx],
                            <<s.ext_no, s.idx>>, now)
        new_signals == s.new_signals \cup {signal}
    IN  /\ s.pc = "accepted"
        /\ ~(insert /\ KeyHeldByOther(w, "google", place.place_id))
        /\ IF insert /\ UniqueViolation(pois, "google", place.place_id)
           THEN /\ sess' = [ sess EXCEPT ![w] = Rollback(s, "IntegrityError") ]
                /\ UNCHANGED next_id
           ELSE /\ \E signals \in RowOrders({ r \in poi_signals \cup new_signals :
                                                 r.poi_id = poi_id }) :
                      LET agg == UpdateAggregate(poi_id, signals, s.agg_writes,
                                                 poi_aggregates, now)
                      IN  sess' = [ sess EXCEPT ![w] =
                            [ s EXCEPT
                                !.pc = "loop",
                                !.new_pois = @ \cup PoiWrites(insert, poi_id, place, now),
                                !.new_signals = new_signals,
                                !.agg_writes = { a \in @ : a.poi_id # poi_id } \cup {agg},
                                !.linked = Append(@, [ poi_id |-> poi_id,
                                                       provider_place_id |-> place.place_id,
                                                       match_confidence |-> s.best_score,
                                                       name |-> place.name,
                                                       idx |-> s.idx ]),
                                !.idx = @ + 1 ] ]
                /\ next_id' = signal_id + 1
        /\ UNCHANGED <<social_extractions, pois, poi_signals, poi_aggregates, now, calls, detour, fetch, calc, seed, gate>>

AggregateRow(a) ==
    [ poi_id |-> a.poi_id, aggregate_json |-> a.aggregate_json, score |-> a.score,
      updated_at |-> a.updated_at ]

\* db.commit() after the loop, and the return: lines 247-263
CommitAndReturn(w) ==
    LET s == sess[w]
        written == { a.poi_id : a \in s.agg_writes }
        conflict == \E a \in s.agg_writes :
                        a.op = "insert" /\ \E c \in poi_aggregates : c.poi_id = a.poi_id
    IN  /\ s.pc = "loop"
        /\ s.idx > Len(s.candidates)
        /\ IF conflict
           THEN /\ sess' = [ sess EXCEPT ![w] = Rollback(s, "IntegrityError") ]
                /\ UNCHANGED <<pois, poi_signals, poi_aggregates>>
           ELSE /\ pois' = pois \cup s.new_pois
                /\ poi_signals' = poi_signals \cup s.new_signals
                /\ poi_aggregates' = { c \in poi_aggregates : c.poi_id \notin written }
                                     \cup { AggregateRow(a) : a \in s.agg_writes }
                /\ sess' = [ sess EXCEPT ![w] =
                       [ s EXCEPT !.pc = "returned", !.new_pois = {}, !.new_signals = {},
                                  !.agg_writes = {} ] ]
        /\ UNCHANGED <<social_extractions, now, next_id, calls, detour, fetch, calc, seed, gate>>

\* the caller takes the result (or the exception) and closes the session
CloseSession(w) ==
    /\ sess[w].pc \in {"returned", "raised"}
    /\ sess' = [ sess EXCEPT ![w] = IdleSession ]
    /\ UNCHANGED <<db, calls, detour, fetch, calc, seed, gate>>

\* run_extraction stores a (validated) extraction for a post
RunExtraction(p, candidates) ==
    /\ Cardinality({ <<q, k>> \in Posts \X (1..MaxExtractions) :
                        k <= Len(social_extractions[q]) }) < MaxExtractions
    /\ social_extractions' = [ social_extractions EXCEPT ![p] = Append(@, candidates) ]
    /\ UNCHANGED <<pois, poi_signals, poi_aggregates, now, next_id, calls, sess, detour, fetch, calc, seed, gate>>

\* The clock moves in steps of TickDays, between calls: a call does not last
\* for days.
Tick ==
    /\ now < MaxTicks * TickDays
    /\ \A w \in Workers : sess[w].pc = "idle"
    /\ now' = now + TickDays
    /\ UNCHANGED <<social_extractions, pois, poi_signals, poi_aggregates, next_id, calls, sess, detour, fetch, calc, seed, gate>>

Next ==
    \/ \E w \in Workers, p \in Posts, th \in Thresholds : CanonicalizeCall(w, p, th)
    \/ \E w \in Workers : SearchCandidate(w)
    \/ \E w \in Workers : LinkCandidate(w)
    \/ \E w \in Workers : CommitAndReturn(w)
    \/ \E w \in Workers : CloseSession(w)
    \/ \E p \in Posts : \E c \in ExtractionPool[p] : RunExtraction(p, c)
    \/ Tick

Spec == Init /\ [][Next]_vars

\* canonicalize_post calls run one at a time
NextSerial ==
    \/ \E w \in Workers, p \in Posts, th \in Thresholds :
           /\ \A w2 \in Workers : sess[w2].pc = "idle"
           /\ CanonicalizeCall(w, p, th)
    \/ \E w \in Workers : SearchCandidate(w)
    \/ \E w \in Workers : LinkCandidate(w)
    \/ \E w \in Workers : CommitAndReturn(w)
    \/ \E w \in Workers : CloseSession(w)
    \/ \E p \in Posts : \E c \in ExtractionPool[p] : RunExtraction(p, c)
    \/ Tick

SpecSerial == Init /\ [][NextSerial]_vars

\* calls made in a run that starts with a POI in the tables (the call that
\* made the POI counted)
MaxRaceCalls == 4

\* the rows one canonicalize_post call for p1 commits when the search
\* returns PlaceGood for CandRamen
FirstSignal == NewSignal(2, 1, "p1", CandRamen, <<1, 1>>, 0)

\* the tables after that call, and an extraction stored for each post
InitRace ==
    /\ social_extractions = [ p1 |-> << <<CandRamen>> >>, p2 |-> << <<CandNoName, CandRamen2>> >> ]
    /\ pois = { NewPOI(1, PlaceGood, 0) }
    /\ poi_signals = { FirstSignal }
    /\ poi_aggregates = { AggregateRow(UpdateAggregate(1, <<FirstSignal>>, {}, {}, 0)) }
    /\ now = 0
    /\ next_id = 3
    /\ calls = 1
    /\ sess = [ w \in Workers |-> IdleSession ]
    /\ detour = NoDetour
    /\ fetch = NoFetch
    /\ calc = NoCalc
    /\ seed = NoSeed
    /\ gate = NoGate

\* interleaved calls on the tables that hold the POI
NextRace ==
    \/ \E w \in Workers, p \in Posts, th \in Thresholds : StartCall(w, p, th, MaxRaceCalls)
    \/ \E w \in Workers : SearchCandidate(w)
    \/ \E w \in Workers : LinkCandidate(w)
    \/ \E w \in Workers : CommitAndReturn(w)
    \/ \E w \in Workers : CloseSession(w)

SpecRace == InitRace /\ [][NextRace]_vars

\* the place g1 as the search returned it when its POI was created
PlaceGoodBefore ==
    [ place_id |-> "g1", name |-> <<"A","b">>, loc |-> "N", address |-> <<"a","0">>,
      types |-> <<<<"f","o","o","d">>>>,
      rating |-> 40, user_ratings_total |-> 5, price_level |-> 1 ]

\* the tables after a call that created the POI of g1 from the earlier
\* search result; the search returns other values for g1 now
InitRelink ==
    /\ social_extractions = [ p1 |-> << <<CandRamen>> >>, p2 |-> << <<CandNoName, CandRamen2>> >> ]
    /\ pois = { NewPOI(1, PlaceGoodBefore, 0) }
    /\ poi_signals = { FirstSignal }
    /\ poi_aggregates = { AggregateRow(UpdateAggregate(1, <<FirstSignal>>, {}, {}, 0)) }
    /\ now = 0
    /\ next_id = 3
    /\ calls = 1
    /\ sess = [ w \in Workers |-> IdleSession ]
    /\ detour = NoDetour
    /\ fetch = NoFetch
    /\ calc = NoCalc
    /\ seed = NoSeed
    /\ gate = NoGate

SpecRelink == InitRelink /\ [][NextRace]_vars

(***************************************************************************)
(* Detours: corridor.py                                                    *)
(***************************************************************************)
\* settings.corridor_buffer_km (2.0), in metres
corridor_buffer_km == 2000

\* latitude and longitude of the named points, in millionths of a degree
Lat == [O |-> 35681200, D |-> 35658000, M |-> 35670000, N |-> 35690000, E |-> 35685000,
        X |-> 35695000, F |-> 35750000]

Lng == [O |-> 139767100, D |-> 139701600, M |-> 139735000, N |-> 139760000,
        E |-> 139730000, X |-> 139710000, F |-> 139800000]

\* what point_to_segment_distance_km returns after projecting the point on a
\* segment of non-zero length (lines 34-42), in metres
SegmentDistanceTable ==
    ( <<"O", "D">> :> [O |-> 0, D |-> 0, M |-> 17, N |-> 1163, E |-> 1742, X |-> 3498,
                       F |-> 8207] )

\* seg_len_sq = dx * dx + dy * dy < 1e-12 (degrees squared): in whole
\* millionths of a degree, both differences are zero
point_to_segment_distance_km(p, a, b) ==
    LET dx == Lat[b] - Lat[a]
        dy == Lng[b] - Lng[a]
    IN  IF dx = 0 /\ dy = 0 THEN haversine_km(p, a)
        ELSE SegmentDistanceTable[<<a, b>>][p]

\* a corridor test that lets every point pass
is_within_corridorAlways(poi, origin, dest, buffer_km) ==
    [ within |-> TRUE, dist |-> point_to_segment_distance_km(poi, origin, dest) ]

is_within_corridor(poi, origin, dest, buffer_km) ==
    LET dist == point_to_segment_distance_km(poi, origin, dest)
    IN  [ within |-> dist <= buffer_km, dist |-> dist ]

\* extra kilometres at 30 km/h, in thousandths of a minute: extra metres
\* / 30000 * 60 * 1000
estimate_detour_minutes(origin, poi, dest) ==
    LET direct_km == haversine_km(origin, dest)
        via_poi_km == haversine_km(origin, poi) + haversine_km(poi, dest)
        extra_km == Max(0, via_poi_km - direct_km)
    IN  extra_km * 2

(***************************************************************************)
(* Detours: ranker.py.  Scores are in ten-thousandths.                     *)
(***************************************************************************)
CATEGORY_FILTER_MAP ==
    [ food |-> <<<<"r","e","s","t","a","u","r","a","n","t">>, <<"f","o","o","d">>, <<"m","e","a","l">>>>,
      cafe |-> <<<<"c","a","f","e">>, <<"c","o","f","f","e","e">>>>,
      bar |-> <<<<"b","a","r">>, <<"p","u","b">>, <<"n","i","g","h","t","_","c","l","u","b">>>>,
      dessert |-> <<<<"b","a","k","e","r","y">>, <<"i","c","e","_","c","r","e","a","m">>, <<"d","e","s","s","e","r","t">>, <<"c","a","f","e">>>>,
      any |-> <<>> ]

\* buffer_km / (111.0 * math.cos(math.radians(avg_lat))) for the 2.0 km
\* buffer on the routes used, in millionths of a degree
LngBufferTable ==
    ( <<"O", "D">> :> 22179 ) @@ ( <<"O", "O">> :> 22182 )

\* _bounding_box; 1 degree of latitude is taken as 111 km
bounding_box(p1, p2, buffer_km) ==
    LET lat_buffer == (buffer_km * 1000) \div 111
        lng_buffer == LngBufferTable[<<p1, p2>>]
    IN  [ min_lat |-> Min(Lat[p1], Lat[p2]) - lat_buffer,
          max_lat |-> Max(Lat[p1], Lat[p2]) + lat_buffer,
          min_lng |-> Min(Lng[p1], Lng[p2]) - lng_buffer,
          max_lng |-> Max(Lng[p1], Lng[p2]) + lng_buffer ]

\* the where clause of the query
InBox(poi, bbox) ==
    /\ Lat[poi.loc] >= bbox.min_lat /\ Lat[poi.loc] <= bbox.max_lat
    /\ Lng[poi.loc] >= bbox.min_lng /\ Lng[poi.loc] <= bbox.max_lng

\* the category filter passes the POI (lines 119-128)
PassesCategory(poi, category_filter) ==
    \/ category_filter = "any"
    \/ LET type_keywords == IF category_filter \in DOMAIN CATEGORY_FILTER_MAP
                            THEN CATEGORY_FILTER_MAP[category_filter] ELSE <<>>
       IN  \/ type_keywords = <<>>
           \/ \E i \in DOMAIN poi.categories : \E j \in DOMAIN type_keywords :
                  Contains(Lower(poi.categories[i]), type_keywords[j])

\* a price filter that also removes the POI whose price_level is unknown
PassesPriceKnownOnly(poi, price_level_max) ==
    \/ price_level_max = None
    \/ poi.price_level # None /\ poi.price_level <= price_level_max

\* the price filter passes the POI (lines 130-133)
PassesPrice(poi, price_level_max) ==
    ~ ( /\ price_level_max # None /\ poi.price_level # None
        /\ poi.price_level > price_level_max )

\* aggregate_json of a POI without aggregate row is {}: every .get falls
\* back to its default
EmptyAggJson ==
    [ top_vibe_tags |-> <<>>, top_what_to_order |-> <<>>, warnings |-> {},
      why_special_snippets |-> <<>>, best_time_windows |-> <<>>,
      sources_count |-> <<>>, total_mentions |-> 0 ]

\* the dict appended to candidates for a row (poi, aggregate) that passed the
\* filters; aggregates: the POIAggregate rows joined to the POI (none or one)
Candidate(poi, aggregates, corridor_dist, detour_mins) ==
    LET aggregate == CHOOSE a \in aggregates : TRUE
    IN  [ poi |-> poi, corridor_dist |-> corridor_dist, detour_mins |-> detour_mins,
          social_score |-> IF aggregates # {} THEN aggregate.score * 10 ELSE 0,
          agg_json |-> IF aggregates # {} THEN aggregate.aggregate_json ELSE EmptyAggJson,
          rank_score |-> 0, is_open |-> "None" ]

\* Step 2, the loop over rows: the candidates kept, in row order
RECURSIVE FilterRows(_, _, _)
FilterRows(rows, aggregates, args) ==
    IF rows = <<>> THEN <<>>
    ELSE LET poi == Head(rows)
             c == is_within_corridor(poi.loc, args.origin, args.dest, corridor_buffer_km)
             detour_mins == estimate_detour_minutes(args.origin, poi.loc, args.dest)
             keep == /\ c.within
                     /\ PassesCategory(poi, args.category_filter)
                     /\ PassesPrice(poi, args.price_level_max)
                     /\ detour_mins <= args.max_detour_minutes
         IN  ( IF keep
               THEN << Candidate(poi, { a \in aggregates : a.poi_id = poi.id },
                                 c.dist, detour_mins) >>
               ELSE <<>> ) \o FilterRows(Tail(rows), aggregates, args)

\* Step 3, the base rank: social_score * 0.6 + proximity_score * 0.4
BaseRank(c, buffer_km) ==
    LET proximity_score == Max(0, 10000 - (c.corridor_dist * 10000) \div buffer_km)
    IN  (c.social_score * 6 + proximity_score * 4) \div 10

\* a memory's words longer than 3 characters, from its lower-cased text
LongWords(text_lower) ==
    LET words == Split(text_lower)
    IN  { words[i] : i \in { j \in DOMAIN words : Len(words[j]) > 3 } }

\* a reranking that counts every matching word of a memory
RerankOnePerWord(c, memories) ==
    LET agg == c.agg_json
        combined == Lower(JoinSpace(agg.top_vibe_tags \o agg.top_what_to_order))
                        \o <<" ">> \o Lower(c.poi.name)
        Hits(i) == { word \in LongWords(Lower(memories[i].text)) :
                       \/ Contains(combined, word)
                       \/ /\ memories[i].type = "constraint"
                          /\ \E wn \in agg.warnings : Contains(Lower(wn), word) }
        Weight(i) == IF memories[i].type = "preference" THEN 3000
                     ELSE IF memories[i].type = "constraint" THEN 0 - 5000 ELSE 0
    IN  [ c EXCEPT !.rank_score = @ + SumSeq([ i \in DOMAIN memories |->
                                                Weight(i) * Cardinality(Hits(i)) ]) ]

\* _apply_memory_reranking on one candidate, given the memories retrieved.
\* warnings is a set here, joined in no particular order in the source: a
\* word holds no space, so it is in the joined text iff it is in one warning.
RerankOne(c, memories) ==
    LET agg == c.agg_json
        tags == Lower(JoinSpace(agg.top_vibe_tags \o agg.top_what_to_order))
        name_lower == Lower(c.poi.name)
        combined == tags \o <<" ">> \o name_lower
        InWarnings(word) == \E wn \in agg.warnings : Contains(Lower(wn), word)
        positive == { i \in DOMAIN memories :
                        /\ memories[i].type = "preference"
                        /\ \E word \in LongWords(Lower(memories[i].text)) :
                               Contains(combined, word) }
        negative == { i \in DOMAIN memories :
                        /\ memories[i].type = "constraint"
                        /\ \E word \in LongWords(Lower(memories[i].text)) :
                               Contains(combined, word) \/ InWarnings(word) }
    IN  [ c EXCEPT !.rank_score = @ + 3000 * Cardinality(positive)
                                    - 5000 * Cardinality(negative) ]

\* a reranking in which a failed retrieval leaves no candidates
apply_memory_rerankingOrFail(retrieval, candidates) ==
    IF retrieval.raises THEN <<>>
    ELSE IF retrieval.memories = <<>> THEN candidates
    ELSE [ i \in DOMAIN candidates |-> RerankOne(candidates[i], retrieval.memories) ]

\* retrieval: what retrieve_hybrid did, [raises, memories]
apply_memory_reranking(retrieval, candidates) ==
    IF retrieval.raises \/ retrieval.memories = <<>> THEN candidates
    ELSE [ i \in DOMAIN candidates |-> RerankOne(candidates[i], retrieval.memories) ]

\* InsertByRank that leaves the candidates in row order
InsertUnsorted(sorted, c) == Append(sorted, c)

\* list.sort(key=rank_score, reverse=True) is stable: an element goes behind
\* every element of rank >= its own that came before it
InsertByRank(sorted, c) ==
    LET ahead == Cardinality({ i \in DOMAIN sorted : sorted[i].rank_score >= c.rank_score })
    IN  SubSeq(sorted, 1, ahead) \o <<c>> \o SubSeq(sorted, ahead + 1, Len(sorted))

RECURSIVE SortByRank(_, _)
SortByRank(candidates, sorted) ==
    IF candidates = <<>> THEN sorted
    ELSE SortByRank(Tail(candidates), InsertByRank(sorted, Head(candidates)))

\* Prefix that does not cut
PrefixWhole(seq, n) == seq

\* seq[:n] for n >= 0
Prefix(seq, n) == SubSeq(seq, 1, Min(n, Len(seq)))

\* what places_client.get_details may do for a place
DetailsOutcomes == {"raises", "none", "unknown", "open", "closed"}

\* a loop body that also drops the candidate whose lookup raises
CheckOpenFailClosed(c, details) ==
    IF details \in {"closed", "raises"} THEN <<>>
    ELSE IF details = "open" THEN << [ c EXCEPT !.is_open = "True" ] >>
    ELSE << c >>

\* one pass of the must_be_open loop body for candidate c (lines 189-206):
\* the candidate to append to open_candidates, if any
CheckOpen(c, details) ==
    IF details = "closed" THEN <<>>
    ELSE IF details = "open" THEN << [ c EXCEPT !.is_open = "True" ] >>
    ELSE << c >>

\* the loop over top_k without its break
RECURSIVE OpenHoursLoopNoBreak(_, _, _, _, _)
OpenHoursLoopNoBreak(top_k, hours, max_results, open_candidates, queried) ==
    IF top_k = <<>> THEN [ open_candidates |-> open_candidates, queried |-> queried ]
    ELSE OpenHoursLoopNoBreak(Tail(top_k), hours, max_results,
             open_candidates \o CheckOpen(Head(top_k), hours[Head(top_k).poi.provider_place_id]),
             Append(queried, Head(top_k).poi.provider_place_id))

\* Step 4, the loop over top_k with its break (lines 187-209)
RECURSIVE OpenHoursLoop(_, _, _, _, _)
OpenHoursLoop(top_k, hours, max_results, open_candidates, queried) ==
    IF top_k = <<>> THEN [ open_candidates |-> open_candidates, queried |-> queried ]
    ELSE LET c == Head(top_k)
             place_id == c.poi.provider_place_id
             now_open == open_candidates \o CheckOpen(c, hours[place_id])
             asked == Append(queried, place_id)
         IN  IF Len(now_open) >= max_results
             THEN [ open_candidates |-> now_open, queried |-> asked ]
             ELSE OpenHoursLoop(Tail(top_k), hours, max_results, now_open, asked)

\* the buckets _infer_category tries on each type, in this order
InferBuckets ==
    << [category |-> "food", keywords |-> <<<<"r","e","s","t","a","u","r","a","n","t">>, <<"f","o","o","d">>, <<"m","e","a","l">>>>],
       [category |-> "cafe", keywords |-> <<<<"c","a","f","e">>, <<"c","o","f","f","e","e">>>>],
       [category |-> "bar", keywords |-> <<<<"b","a","r">>, <<"p","u","b">>, <<"n","i","g","h","t","_","c","l","u","b">>>>],
       [category |-> "dessert", keywords |-> <<<<"b","a","k","e","r","y">>, <<"i","c","e","_","c","r","e","a","m">>, <<"d","e","s","s","e","r","t">>>>],
       [category |-> "viewpoint",
        keywords |-> <<<<"t","o","u","r","i","s","t","_","a","t","t","r","a","c","t","i","o","n">>, <<"p","a","r","k">>, <<"v","i","e","w","p","o","i","n","t">>>>],
       [category |-> "shop", keywords |-> <<<<"s","t","o","r","e">>, <<"s","h","o","p">>, <<"m","a","r","k","e","t">>>>] >>

\* _infer_category: the first type, in list order, that matches a bucket
\* decides, by the first bucket it matches
RECURSIVE infer_category(_)
infer_category(types) ==
    IF types = <<>> THEN "other"
    ELSE LET t == Lower(Head(types))
             hits == { b \in DOMAIN InferBuckets :
                         \E k \in DOMAIN InferBuckets[b].keywords :
                             Contains(t, InferBuckets[b].keywords[k]) }
         IN  IF hits # {}
             THEN InferBuckets[CHOOSE b \in hits : \A b2 \in hits : b <= b2].category
             ELSE infer_category(Tail(types))

\* _first_snippet
RECURSIVE first_snippet(_)
first_snippet(snippets) ==
    IF snippets = <<>> THEN <<>>
    ELSE IF Head(snippets) # <<>> /\ Strip(Head(snippets)) # <<>> THEN Strip(Head(snippets))
    ELSE first_snippet(Tail(snippets))

\* round(x, digits) of a value given in thousandths, to a multiple of unit
Round(x, unit) == ((x + unit \div 2) \div unit) * unit

\* Step 5: the DetourSuggestion built from a candidate.  rank_score is not a
\* field of DetourSuggestion; it is kept beside confidence, which is
\* min(1.0, rank_score / 5.0)
Suggestion(c) ==
    [ poi_id |-> c.poi.id, name |-> c.poi.name, loc |-> c.poi.loc,
      address |-> c.poi.address, category |-> infer_category(c.poi.categories),
      adds_minutes |-> Round(c.detour_mins, 100),
      corridor_distance_km |-> Round(c.corridor_dist, 10),
      social_score |-> Round(c.social_score, 100),
      why_special |-> first_snippet(c.agg_json.why_special_snippets),
      what_to_order |-> Prefix(c.agg_json.top_what_to_order, 3),
      warnings |-> c.agg_json.warnings,
      vibe_tags |-> Prefix(c.agg_json.top_vibe_tags, 5),
      confidence |-> Min(10000, c.rank_score \div 5),
      sources_count |-> c.agg_json.sources_count,
      is_open |-> c.is_open,
      rank_score |-> c.rank_score ]

(***************************************************************************)
(* The inputs of suggest_detours                                           *)
(***************************************************************************)
MaxResults == 2

\* (origin, dest) pairs; the second is a route of zero length
Routes == { <<"O", "D">>, <<"O", "O">> }

\* "unlisted" is a filter that is no key of CATEGORY_FILTER_MAP
CategoryFilters == {"any", "food", "unlisted"}

PriceLevelMaxes == {None, 2}

\* max_detour_minutes, in thousandths of a minute (15.0 is the default)
MaxDetourMinutes == {15000, 2000}

\* user_id, "" for None
UserIds == {"", "u1"}

PlaceBar ==
    [ place_id |-> "g4", name |-> <<"B","a","r">>, loc |-> "E", address |-> <<>>,
      types |-> <<<<"b","a","r">>>>,
      rating |-> 38, user_ratings_total |-> 7, price_level |-> 3 ]

PlaceOut ==
    [ place_id |-> "g5", name |-> <<"r","a","m","e","n"," ","a">>, loc |-> "X", address |-> <<"a","5">>,
      types |-> <<<<"r","e","s","t","a","u","r","a","n","t">>>>,
      rating |-> 41, user_ratings_total |-> 9, price_level |-> 1 ]

PlaceStart ==
    [ place_id |-> "g6", name |-> <<"s","a">>, loc |-> "O", address |-> <<>>, types |-> <<>>,
      rating |-> None, user_ratings_total |-> None, price_level |-> None ]

PlaceEnd ==
    [ place_id |-> "g7", name |-> <<"s","b">>, loc |-> "D", address |-> <<>>,
      types |-> <<<<"C","o","f","f","e","e","_","s","h","o","p">>, <<"f","o","o","d">>>>,
      rating |-> None, user_ratings_total |-> None, price_level |-> 2 ]

PlaceIds == {"g1", "g2", "g3", "g4", "g5", "g6", "g7"}

MemPref == [ type |-> "preference", text |-> <<"l","o","v","e"," ","S","p","i","c","y"," ","r","a","m","e","n">> ]
MemCons == [ type |-> "constraint", text |-> <<"n","o"," ","q","u","e","u","e"," ","a","t"," ","a","l","l">> ]
MemEpisode == [ type |-> "episode", text |-> <<"s","p","i","c","y"," ","q","u","e","u","e">> ]

\* what retrieve_hybrid may do: raise, or return up to 5 memories
RetrievalOutcomes ==
    { [raises |-> TRUE, memories |-> <<>>] } \cup
    { [raises |-> FALSE, memories |-> m] :
        m \in { <<>>, <<MemPref>>, <<MemEpisode, MemCons, MemPref>> } }

\* what get_details does for each place during one call
HoursWorlds ==
    { [ g \in PlaceIds |-> "open" ],
      [ g \in PlaceIds |-> "closed" ],
      [ g \in PlaceIds |-> "raises" ],
      [ g \in PlaceIds |-> IF g \in {"g1", "g6"} THEN "closed"
                           ELSE IF g = "g3" THEN "unknown" ELSE "open" ],
      [ g \in PlaceIds |-> IF g = "g1" THEN "raises"
                           ELSE IF g \in {"g3", "g7"} THEN "none" ELSE "closed" ] }

\* A knowledge base as canonicalize_post leaves it: entry i is a place and
\* the (post, candidate) pairs linked to it; its POI has id i, its signals
\* the ids 10 * i + k, and its aggregate is the one _update_aggregate wrote
\* with the last signal.
KBPois(entries) == { NewPOI(i, entries[i].place, 0) : i \in DOMAIN entries }

KBSignalSeq(entries, i) ==
    [ k \in DOMAIN entries[i].mentions |->
        NewSignal(10 * i + k, i, entries[i].mentions[k][1], entries[i].mentions[k][2],
                  <<1, k>>, 0) ]

KBSignals(entries) == UNION { Range(KBSignalSeq(entries, i)) : i \in DOMAIN entries }

KBAggregates(entries) ==
    { AggregateRow(UpdateAggregate(i, KBSignalSeq(entries, i), {}, {}, 0)) :
        i \in DOMAIN entries }

KnowledgeBases ==
    { <<>>,
      << [ place |-> PlaceCafe, mentions |-> << <<"p2", CandRamen2>> >> ] >>,
      << [ place |-> PlaceGood, mentions |-> << <<"p1", CandRamen>>, <<"p2", CandRamen2>> >> ],
         [ place |-> PlaceCafe, mentions |-> << <<"p1", CandOther>> >> ],
         [ place |-> PlaceBar, mentions |-> << <<"p2", CandRamen2>> >> ],
         [ place |-> PlaceFar, mentions |-> << <<"p1", CandOther>> >> ] >>,
      << [ place |-> PlaceStart, mentions |-> << <<"p1", CandOther>> >> ],
         [ place |-> PlaceEnd, mentions |-> << <<"p1", CandOther>> >> ],
         [ place |-> PlaceOut, mentions |-> << <<"p1", CandRamen>> >> ] >> }

(***************************************************************************)
(* suggest_detours                                                         *)
(***************************************************************************)
\* db.execute(query).all(): the POIs in the bounding box, in any order
QueryRows(origin, dest) ==
    RowOrders({ p \in pois : InBox(p, bounding_box(origin, dest, corridor_buffer_km)) })

\* suggest_detours from the rows of the query to the return: what one call
\* returns and what it asked of its collaborators.  args.retrieval and
\* args.hours are what the two collaborators do during the call.
suggest_detours(args, rows) ==
    LET candidates == FilterRows(rows, poi_aggregates, args)
        ranked == [ i \in DOMAIN candidates |->
                      [ candidates[i] EXCEPT !.rank_score =
                            BaseRank(candidates[i], corridor_buffer_km) ] ]
        reranked == IF args.user_id # "" THEN apply_memory_reranking(args.retrieval, ranked)
                    ELSE ranked
        sorted == SortByRank(reranked, <<>>)
        shortlist == Prefix(sorted, args.max_results * 2)
        loop == OpenHoursLoop(shortlist, args.hours, args.max_results, <<>>, <<>>)
        top_k == IF args.must_be_open THEN loop.open_candidates ELSE shortlist
        final == Prefix(top_k, args.max_results)
        row_ids == [ i \in DOMAIN rows |-> rows[i].provider_place_id ]
    IN  IF candidates = <<>>
        THEN [ NoDetour EXCEPT !.called = TRUE, !.args = args, !.rows = row_ids,
                               !.bbox_pois_count = Len(rows) ]
        ELSE [ called |-> TRUE, args |-> args, rows |-> row_ids,
               results |-> [ i \in DOMAIN final |-> Suggestion(final[i]) ],
               shortlist |-> [ i \in DOMAIN shortlist |->
                                 shortlist[i].poi.provider_place_id ],
               details_calls |-> IF args.must_be_open THEN loop.queried ELSE <<>>,
               memory_calls |->
                   IF args.user_id # ""
                   THEN << <<"f","o","o","d"," ","p","r","e","f","e","r","e","n","c","e","s"," ","t","r","a","v","e","l"," ","d","i","n","i","n","g">> >>
                   ELSE <<>>,
               bbox_pois_count |-> Len(rows),
               corridor_candidates |-> Len(candidates) ]

\* One call of suggest_detours.  rows is what the query returned; retrieval
\* and hours are what the two collaborators do during the call.
SuggestDetours(user_id, route, max_detour_minutes, category_filter, price_level_max, must_be_open, max_results, rows, retrieval, hours) ==
    LET args == [ user_id |-> user_id, origin |-> route[1], dest |-> route[2],
                  max_detour_minutes |-> max_detour_minutes, intent |-> <<>>,
                  category_filter |-> category_filter,
                  price_level_max |-> price_level_max, must_be_open |-> must_be_open,
                  max_results |-> max_results, retrieval |-> retrieval, hours |-> hours ]
    IN  /\ ~detour.called
        /\ detour' = suggest_detours(args, rows)
        /\ UNCHANGED <<social_extractions, pois, poi_signals, poi_aggregates, now,
                       next_id, calls, sess, fetch, calc, seed, gate>>

\* the caller takes the list returned
TakeSuggestions ==
    /\ detour.called
    /\ detour' = NoDetour
    /\ UNCHANGED <<social_extractions, pois, poi_signals, poi_aggregates, now, next_id,
                   calls, sess, fetch, calc, seed, gate>>

\* a knowledge base filled by earlier canonicalize_post calls
InitDetour ==
    /\ \E kb \in KnowledgeBases :
           /\ pois = KBPois(kb)
           /\ poi_signals = KBSignals(kb)
           /\ poi_aggregates = KBAggregates(kb)
    /\ social_extractions = [ p \in Posts |-> <<>> ]
    /\ now = 0
    /\ next_id = 100
    /\ calls = 0
    /\ sess = [ w \in Workers |-> IdleSession ]
    /\ detour = NoDetour
    /\ fetch = NoFetch
    /\ calc = NoCalc
    /\ seed = NoSeed
    /\ gate = NoGate

\* collaborators are drawn only for the calls that consult them
NextDetour ==
    \/ TakeSuggestions
    \/ /\ ~detour.called
       /\ \E route \in Routes : \E rows \in QueryRows(route[1], route[2]) :
          \E user_id \in UserIds, max_detour_minutes \in MaxDetourMinutes,
             category_filter \in CategoryFilters, price_level_max \in PriceLevelMaxes,
             must_be_open \in BOOLEAN, max_results \in 0..MaxResults,
             retrieval \in RetrievalOutcomes, hours \in HoursWorlds :
              /\ user_id = "" => retrieval = [raises |-> FALSE, memories |-> <<>>]
              /\ ~must_be_open => hours = [ g \in PlaceIds |-> "open" ]
              /\ SuggestDetours(user_id, route, max_detour_minutes, category_filter,
                                price_level_max, must_be_open, max_results, rows,
                                retrieval, hours)

SpecDetour == InitDetour /\ [][NextDetour]_vars

(***************************************************************************)
(* Chat: _fetch_detour_candidates (app/chat/service.py)                    *)
(***************************************************************************)
\* the location context of a chat request: none, or a route and a category
\* (category "" for None)
NoLocation == [ given |-> FALSE, origin |-> "O", dest |-> "O", category |-> "" ]

Locations ==
    { NoLocation } \cup
    { [ given |-> TRUE, origin |-> r[1], dest |-> r[2], category |-> c ] :
        r \in Routes, c \in {"", "food", "unlisted"} }

ErrorMessages == { "", "DB connection lost" }

\* what the query of suggest_detours does: return its rows, or raise
QueryFailures ==
    { [raises |-> FALSE, message |-> ""] } \cup
    { [raises |-> TRUE, message |-> m] : m \in ErrorMessages }

\* max_results=5 of the call in _fetch_detour_candidates
ChatMaxResults == 5

\* the arguments _fetch_detour_candidates passes to suggest_detours; the
\* others keep their defaults
FetchArgs(location, retrieval) ==
    [ user_id |-> "u1", origin |-> location.origin, dest |-> location.dest,
      max_detour_minutes |-> 15000, intent |-> <<>>,
      category_filter |-> IF location.category = "" THEN "food" ELSE location.category,
      price_level_max |-> None, must_be_open |-> FALSE,
      max_results |-> ChatMaxResults, retrieval |-> retrieval,
      hours |-> [ g \in PlaceIds |-> "open" ] ]

\* a _fetch_detour_candidates without the try/except around suggest_detours
fetch_detour_candidatesNoCatch(location, failure, results) ==
    IF ~location.given
    THEN [ results |-> <<>>, reason |-> "no location context provided", propagated |-> FALSE ]
    ELSE IF failure.raises
    THEN [ results |-> <<>>, reason |-> "None", propagated |-> TRUE ]
    ELSE IF results = <<>>
    THEN [ results |-> <<>>, reason |-> "no POIs found in corridor for this area",
           propagated |-> FALSE ]
    ELSE [ results |-> results, reason |-> "None", propagated |-> FALSE ]

\* what _fetch_detour_candidates returns: (candidates_list, reason), reason
\* "None" for None.  failure: what the query did; results: what
\* suggest_detours returned when it did not raise
fetch_detour_candidates(location, failure, results) ==
    IF ~location.given
    THEN [ results |-> <<>>, reason |-> "no location context provided", propagated |-> FALSE ]
    ELSE IF failure.raises
    THEN [ results |-> <<>>, reason |-> "detour query failed: " \o failure.message,
           propagated |-> FALSE ]
    ELSE IF results = <<>>
    THEN [ results |-> <<>>, reason |-> "no POIs found in corridor for this area",
           propagated |-> FALSE ]
    ELSE [ results |-> results, reason |-> "None", propagated |-> FALSE ]

\* One call of _fetch_detour_candidates, with the suggest_detours call it
\* makes
FetchDetourCandidates(location, rows, failure, retrieval) ==
    LET args == FetchArgs(location, retrieval)
        call == suggest_detours(args, rows)
        returned == fetch_detour_candidates(location, failure, call.results)
    IN  /\ ~fetch.done
        /\ detour' = IF ~location.given THEN NoDetour
                     ELSE IF failure.raises
                     THEN [ NoDetour EXCEPT !.called = TRUE, !.args = args ]
                     ELSE call
        /\ fetch' = [ done |-> TRUE, location |-> location,
                      suggest |-> IF ~location.given THEN "not_called"
                                  ELSE IF failure.raises THEN "raised" ELSE "returned",
                      message |-> failure.message,
                      results |-> returned.results, reason |-> returned.reason,
                      propagated |-> returned.propagated ]
        /\ UNCHANGED <<social_extractions, pois, poi_signals, poi_aggregates, now,
                       next_id, calls, sess, calc, seed, gate>>

\* process_chat takes the pair returned
TakeCandidates ==
    /\ fetch.done
    /\ fetch' = NoFetch
    /\ detour' = NoDetour
    /\ UNCHANGED <<social_extractions, pois, poi_signals, poi_aggregates, now, next_id,
                   calls, sess, calc, seed, gate>>

NextChat ==
    \/ TakeCandidates
    \/ /\ ~fetch.done
       /\ \E location \in Locations :
          \E rows \in QueryRows(location.origin, location.dest) :
          \E failure \in QueryFailures, retrieval \in RetrievalOutcomes :
              /\ ~location.given => ~failure.raises
              /\ (~location.given \/ failure.raises) =>
                     /\ retrieval = [raises |-> FALSE, memories |-> <<>>]
                     /\ \A i \in DOMAIN rows : \A j \in DOMAIN rows :
                            i < j => rows[i].id < rows[j].id
              /\ FetchDetourCandidates(location, rows, failure, retrieval)

SpecChat == InitDetour /\ [][NextChat]_vars

(***************************************************************************)
(* compute_aggregate and compute_score on stored payloads                  *)
(***************************************************************************)
\* A JSON value of a signal payload: its type and, for a list, its items
\* (for a string, its characters).
JList(items) == [ type |-> "list", value |-> items ]

JString(chars) == [ type |-> "string", value |-> chars ]

JNull == [ type |-> "null", value |-> <<>> ]

JNumber == [ type |-> "number", value |-> <<>> ]

\* `for x in v`: a list gives its items, a string its characters, None and a
\* number raise TypeError
Iterate(v) ==
    IF v.type = "list" THEN [ raises |-> FALSE, items |-> v.value ]
    ELSE IF v.type = "string"
    THEN [ raises |-> FALSE, items |-> [ i \in DOMAIN v.value |-> <<v.value[i]>> ] ]
    ELSE [ raises |-> TRUE, items |-> <<>> ]

\* `if why and why not in why_snippets: why_snippets.append(why)`: None and
\* "" are skipped, any other value is appended (a number as it prints)
WhyValue(v) ==
    IF v.type = "string" THEN v.value
    ELSE IF v.type = "number" THEN <<"5">>
    ELSE <<>>

ListFields == {"vibe_tags", "what_to_order", "warnings", "best_time_windows"}

\* compute_aggregate raises: one of its four loops iterates a value that is
\* not iterable
AggregateRaises(signals) ==
    \E i \in DOMAIN signals : \E f \in ListFields :
        Iterate(signals[i].signal_json[f]).raises

\* the signal as the loops of compute_aggregate read it when none raises
ReadSignal(s) ==
    [ s EXCEPT !.signal_json =
        [ vibe_tags |-> Iterate(s.signal_json.vibe_tags).items,
          what_to_order |-> Iterate(s.signal_json.what_to_order).items,
          warnings |-> Iterate(s.signal_json.warnings).items,
          best_time_windows |-> Iterate(s.signal_json.best_time_windows).items,
          why_special |-> WhyValue(s.signal_json.why_special) ] ]

\* sum(s.confidence for s in signals) raises TypeError on a None confidence
ScoreRaises(signals) == \E i \in DOMAIN signals : signals[i].confidence = None

\* a stored signal: payload fields as JSON values, confidence None or in
\* thousandths
StoredSignal(source, vibe_tags, what_to_order, warnings, best_time_windows, why_special, confidence) ==
    [ source |-> source, confidence |-> confidence, created_at |-> 0,
      signal_json |-> [ vibe_tags |-> vibe_tags, what_to_order |-> what_to_order,
                        warnings |-> warnings, best_time_windows |-> best_time_windows,
                        why_special |-> why_special ] ]

Letters(chars) == JList([ i \in DOMAIN chars |-> <<chars[i]>> ])

SignalPool ==
    { StoredSignal("xhs", Letters(<<"a","b","c","d","e","f">>), Letters(<<"a","b","c","d","e","f">>),
                   Letters(<<"x">>), Letters(<<"a","b","c">>), JString(<<"w","1">>), 900),
      StoredSignal("xhs", Letters(<<"g","h","i","j","k","l">>), Letters(<<"g","h","i","j","k">>),
                   Letters(<<>>), Letters(<<"d","e","f">>), JString(<<>>), 700),
      StoredSignal("reddit", Letters(<<"l","k","a">>), Letters(<<"f","g">>),
                   Letters(<<"y","x">>), Letters(<<"f","a">>), JString(<<"w","2">>), 500),
      StoredSignal("xhs", JNull, Letters(<<"a">>), Letters(<<"x">>), Letters(<<"a">>),
                   JNull, 800),
      StoredSignal("reddit", Letters(<<"b">>), JString(<<"a","b">>), JNumber, Letters(<<"b">>),
                   JNumber, None) }

MaxSignals == 3

\* a signal that carries only a why_special ("" for k = 0) and one warning
WhySignal(source, k) ==
    StoredSignal(source, Letters(<<>>), Letters(<<>>), Letters(<<"x">>), Letters(<<>>),
                 JString(IF k = 0 THEN <<>> ELSE <<"w", <<"1","2","3","4","5","6">>[k]>>), 500)

\* lists with more than five different why_special strings
LongSignalLists ==
    { [ k \in 1..6 |-> WhySignal("xhs", k) ],
      << WhySignal("xhs", 1), WhySignal("reddit", 2), WhySignal("xhs", 1),
         WhySignal("xhs", 0), WhySignal("reddit", 3), WhySignal("xhs", 4),
         WhySignal("xhs", 5), WhySignal("reddit", 6) >> }

\* the signal lists of one POI the functions are applied to
SignalLists ==
    UNION { [ 1..n -> SignalPool ] : n \in 0..MaxSignals } \cup LongSignalLists

\* _update_aggregate calls compute_aggregate, then compute_score, on the
\* signals of the POI; an exception of the first leaves the second uncalled
ComputeAggregate ==
    /\ ~calc.done
    /\ LET signals == calc.signals
           read == [ i \in DOMAIN signals |-> ReadSignal(signals[i]) ]
           raises == AggregateRaises(signals)
       IN  calc' = [ done |-> TRUE, signals |-> signals,
                     raises |-> raises \/ ScoreRaises(signals),
                     raised_in |-> IF raises THEN "compute_aggregate"
                                   ELSE IF ScoreRaises(signals) THEN "compute_score"
                                   ELSE "",
                     aggregate_json |-> IF raises THEN EmptyAggJson
                                        ELSE compute_aggregate(read),
                     score |-> IF raises \/ ScoreRaises(signals) THEN 0
                               ELSE compute_score(signals, now) ]
    /\ UNCHANGED <<social_extractions, pois, poi_signals, poi_aggregates, now, next_id,
                   calls, sess, detour, fetch, seed, gate>>

InitAggregate ==
    /\ social_extractions = [ p \in Posts |-> <<>> ]
    /\ pois = {}
    /\ poi_signals = {}
    /\ poi_aggregates = {}
    /\ now = 0
    /\ next_id = 1
    /\ calls = 0
    /\ sess = [ w \in Workers |-> IdleSession ]
    /\ detour = NoDetour
    /\ fetch = NoFetch
    /\ \E signals \in SignalLists : calc = [ done |-> FALSE, signals |-> signals ]
    /\ seed = NoSeed
    /\ gate = NoGate

NextAggregate == ComputeAggregate

SpecAggregate == InitAggregate /\ [][NextAggregate]_vars

(***************************************************************************)
(* scripts/seed_ingest.py: process_seed_file                               *)
(***************************************************************************)

MaxRows == 2

\* the values of enum SocialSource
SocialSources == {"xhs", "tiktok", "instagram", "reddit", "manual"}

\* a validate_source that accepts every string
validate_sourceAny(source_str) == [ raises |-> FALSE, source |-> source_str ]

\* SocialSource(source_str), ValueError on a string that is no member
validate_source(source_str) ==
    [ raises |-> source_str \notin SocialSources, source |-> source_str ]

\* a row as _dict_to_row builds it: raw_text is stripped, no url
SeedRow(source, raw_text) == [ source |-> source, raw_text |-> raw_text ]

SeedRowPool ==
    { SeedRow("manual", <<"r">>), SeedRow("manual", <<>>), SeedRow("xhs", <<>>),
      SeedRow("xhs", <<"r">>), SeedRow("INVALID_SOURCE", <<"r">>) }

SeedFiles == UNION { [ 1..n -> SeedRowPool ] : n \in 0..MaxRows }

\* what the calls made for one row do when they are made: ingest_post with
\* its flush and commit, run_extraction with its commit (the number of
\* candidates it extracted), canonicalize_post (the numbers it returns)
RowWorld(ingest_raises, extraction_raises, candidates, canon_raises, linked, unmatched) ==
    [ ingest_raises |-> ingest_raises, extraction_raises |-> extraction_raises,
      candidates |-> candidates, canon_raises |-> canon_raises,
      linked |-> linked, unmatched |-> unmatched ]

RowWorlds ==
    { RowWorld(TRUE, FALSE, 0, FALSE, 0, 0), RowWorld(FALSE, TRUE, 0, FALSE, 0, 0),
      RowWorld(FALSE, FALSE, 0, FALSE, 0, 0), RowWorld(FALSE, FALSE, 1, TRUE, 0, 0),
      RowWorld(FALSE, FALSE, 1, FALSE, 1, 0), RowWorld(FALSE, FALSE, 1, FALSE, 0, 1) }

\* ingest_post followed by db.commit(): a manual source without text raises
\* ValueError; anything else raises when the world says so
ingest_post(source, raw_text, world) ==
    [ raises |-> (source = "manual" /\ raw_text = <<>>) \/ world.ingest_raises,
      raw_text |-> raw_text ]

\* one row, in a session of its own.  s is the run so far; idx is the row's
\* position in the file.  rollback() discards what was not committed: the
\* post is committed before run_extraction is called.
process_one_row(row, idx, s, world) ==
    LET begun == [ s EXCEPT !.attempted = Append(@, idx), !.worlds = Append(@, world),
                            !.i = @ + 1 ]
        Error(st, kind) ==
            [ st EXCEPT !.summary.errors = Append(@, [ kind |-> kind, row |-> idx ]) ]
        ingested == ingest_post(row.source, row.raw_text, world)
        inserted == [ begun EXCEPT !.posts = Append(@, idx),
                                   !.summary.inserted_posts = @ + 1 ]
        failed == [ Error(inserted, "Extraction failed")
                        EXCEPT !.summary.extraction_failures = @ + 1 ]
        extracted == [ inserted EXCEPT !.extractions = Append(@, idx),
                                       !.summary.extracted_posts = @ + 1 ]
        called == [ extracted EXCEPT !.canon_calls = Append(@, idx) ]
    IN  IF validate_source(row.source).raises THEN Error(begun, "Row failed")
        ELSE IF ingested.raises THEN Error(begun, "Row failed")
        ELSE IF s.skip_extract THEN inserted
        ELSE IF Strip(ingested.raw_text) = <<>> THEN inserted
        ELSE IF world.extraction_raises THEN failed
        ELSE IF s.skip_canonicalize \/ world.candidates = 0 THEN extracted
        ELSE IF world.canon_raises THEN Error(called, "Canonicalization failed")
        ELSE [ called EXCEPT
                 !.summary.canonicalized_candidates = @ + world.linked + world.unmatched,
                 !.summary.linked_pois = @ + world.linked,
                 !.summary.unmatched_candidates = @ + world.unmatched ]

\* the positions of the rows of the file that pass the source filter, cut
\* to the limit
SelectRows(file, source_filter, limit) ==
    LET matching == FlattenSeq([ k \in DOMAIN file |->
                        IF source_filter = "" \/ file[k].source = source_filter
                        THEN <<k>> ELSE <<>> ])
    IN  [ matching |-> matching,
          rows |-> IF limit # None /\ limit < Len(matching)
                   THEN SubSeq(matching, 1, limit) ELSE matching ]

\* process_seed_file up to its loop: parse, filter, limit, dry run
ProcessSeedFile ==
    /\ ~seed.started
    /\ LET selected == SelectRows(seed.file, seed.source_filter, seed.limit)
       IN  seed' = [ seed EXCEPT
               !.started = TRUE,
               !.rows = selected.rows,
               !.summary.total_rows = Len(seed.file),
               !.summary.skipped_rows =
                   IF seed.source_filter # "" THEN Len(seed.file) - Len(selected.matching) ELSE 0,
               !.done = seed.dry_run \/ selected.rows = <<>> ]
    /\ UNCHANGED <<social_extractions, pois, poi_signals, poi_aggregates, now, next_id,
                   calls, sess, detour, fetch, calc, gate>>

\* one turn of the loop of process_seed_file
ProcessOneRow ==
    /\ seed.started /\ ~seed.done
    /\ \E world \in RowWorlds :
         LET idx == seed.rows[seed.i + 1]
             after == process_one_row(seed.file[idx], idx, seed, world)
         IN  seed' = [ after EXCEPT !.done = (after.i = Len(seed.rows)) ]
    /\ UNCHANGED <<social_extractions, pois, poi_signals, poi_aggregates, now, next_id,
                   calls, sess, detour, fetch, calc, gate>>

SourceFilters == {"", "xhs"}

Limits == {None, 1}

InitSeed ==
    /\ social_extractions = [ p \in Posts |-> <<>> ]
    /\ pois = {}
    /\ poi_signals = {}
    /\ poi_aggregates = {}
    /\ now = 0
    /\ next_id = 1
    /\ calls = 0
    /\ sess = [ w \in Workers |-> IdleSession ]
    /\ detour = NoDetour
    /\ fetch = NoFetch
    /\ calc = NoCalc
    /\ \E file \in SeedFiles, source_filter \in SourceFilters, limit \in Limits,
          dry_run \in BOOLEAN, skip_extract \in BOOLEAN, skip_canonicalize \in BOOLEAN :
       /\ gate = NoGate
       /\          seed = [ NoSeed EXCEPT !.file = file, !.source_filter = source_filter,
                                 !.limit = limit, !.dry_run = dry_run,
                                 !.skip_extract = skip_extract,
                                 !.skip_canonicalize = skip_canonicalize ]

NextSeed == ProcessSeedFile \/ ProcessOneRow

SpecSeed == InitSeed /\ [][NextSeed]_vars

(***************************************************************************)
(* app/memory/gate.py: the write gate                                      *)
(***************************************************************************)

MaxCandidates == 3

\* text.lower().strip()
normalize_text(text) == Strip(Lower(text))

is_duplicate(candidate, existing_texts) ==
    \E i \in DOMAIN existing_texts :
        normalize_text(existing_texts[i]) = normalize_text(candidate.text)

\* the truth value Python gives the JSON value under explicit_user_consent:
\* true and a non-empty string are true; false and null are not
Truthy(value) == value \in {"true", "text"}

\* a write gate that asks no consent for high sensitivity
should_storeWithoutConsent(candidate) ==
    IF candidate.sensitivity = "med" THEN candidate.confidence >= 850
    ELSE candidate.confidence >= 750

\* structured_json: "none" for None, "missing" for a dict without the key
\* explicit_user_consent, else the value under the key.  Confidence in
\* thousandths.
should_store(candidate) ==
    LET has_explicit_consent ==
            /\ candidate.structured_json # "none"
            /\ candidate.structured_json # "missing"
            /\ Truthy(candidate.structured_json)
    IN  IF candidate.sensitivity = "high"
        THEN has_explicit_consent /\ candidate.confidence >= 750
        ELSE IF candidate.sensitivity = "med" THEN candidate.confidence >= 850
        ELSE IF candidate.sensitivity = "low" THEN candidate.confidence >= 750
        ELSE FALSE

\* the loop of evaluate_candidates from candidate k on; existing_texts is
\* the caller's list, which the loop appends to
RECURSIVE EvaluateFrom(_, _, _)
EvaluateFrom(candidates, k, st) ==
    IF k > Len(candidates) THEN st
    ELSE LET candidate == candidates[k]
         IN  IF is_duplicate(candidate, st.existing_texts)
             THEN EvaluateFrom(candidates, k + 1,
                      [ st EXCEPT !.rejected = Append(@, candidate) ])
             ELSE IF should_store(candidate)
             THEN EvaluateFrom(candidates, k + 1,
                      [ st EXCEPT !.approved = Append(@, candidate),
                                  !.existing_texts = Append(@, candidate.text) ])
             ELSE EvaluateFrom(candidates, k + 1,
                      [ st EXCEPT !.rejected = Append(@, candidate) ])

evaluate_candidates(candidates, existing_texts) ==
    EvaluateFrom(candidates, 1,
        [ approved |-> <<>>, rejected |-> <<>>, existing_texts |-> existing_texts ])

MemoryCandidate(text, confidence, sensitivity, structured_json) ==
    [ text |-> text, confidence |-> confidence, sensitivity |-> sensitivity,
      structured_json |-> structured_json ]

CandidatePool ==
    { MemoryCandidate(<<"A">>, 750, "low", "none"),
      MemoryCandidate(<<"a", " ">>, 740, "low", "none"),
      MemoryCandidate(<<"a", " ">>, 850, "med", "missing"),
      MemoryCandidate(<<"b">>, 840, "med", "none"),
      MemoryCandidate(<<"b">>, 900, "high", "true"),
      MemoryCandidate(<<"A">>, 900, "high", "false"),
      MemoryCandidate(<<"b">>, 950, "high", "none"),
      MemoryCandidate(<<" ", "c">>, 990, "high", "missing"),
      MemoryCandidate(<<"a", " ">>, 740, "high", "true"),
      MemoryCandidate(<<"C">>, 750, "high", "text"),
      MemoryCandidate(<<"c">>, 800, "high", "null") }

ExistingTexts == { <<>>, << <<"a">> >>, << <<" ", "B">>, <<"c">> >> }

EvaluateCandidates ==
    /\ ~gate.done
    /\ LET result == evaluate_candidates(gate.candidates, gate.existing_texts)
       IN  gate' = [ gate EXCEPT !.done = TRUE, !.approved = result.approved,
                                 !.rejected = result.rejected,
                                 !.existing_after = result.existing_texts ]
    /\ UNCHANGED <<social_extractions, pois, poi_signals, poi_aggregates, now, next_id,
                   calls, sess, detour, fetch, calc, seed>>

InitGate ==
    /\ social_extractions = [ p \in Posts |-> <<>> ]
    /\ pois = {}
    /\ poi_signals = {}
    /\ poi_aggregates = {}
    /\ now = 0
    /\ next_id = 1
    /\ calls = 0
    /\ sess = [ w \in Workers |-> IdleSession ]
    /\ detour = NoDetour
    /\ fetch = NoFetch
    /\ calc = NoCalc
    /\ seed = NoSeed
    /\ \E candidates \in UNION { [ 1..n -> CandidatePool ] : n \in 0..MaxCandidates },
          existing_texts \in ExistingTexts :
          gate = [ NoGate EXCEPT !.candidates = candidates,
                                 !.existing_texts = existing_texts ]

NextGate == EvaluateCandidates

SpecGate == InitGate /\ [][NextGate]_vars

(***************************************************************************)
(* score_match with a location_bias                                        *)
(***************************************************************************)

CandidateNames == { <<"a", "B">>, <<"a", "c">>, <<>> }

CandidateCategories == { "food", "cafe", "other" }

\* a point, or "" for no location_bias
LocationBiases == Points \cup {""}

ScoreMatch ==
    /\ ~calc.done
    /\ calc' = [ calc EXCEPT
           !.done = TRUE,
           !.score = score_match(calc.candidate_name, calc.candidate_category,
                                 calc.place, calc.location_bias) ]
    /\ UNCHANGED <<social_extractions, pois, poi_signals, poi_aggregates, now, next_id,
                   calls, sess, detour, fetch, seed, gate>>

InitScore ==
    /\ social_extractions = [ p \in Posts |-> <<>> ]
    /\ pois = {}
    /\ poi_signals = {}
    /\ poi_aggregates = {}
    /\ now = 0
    /\ next_id = 1
    /\ calls = 0
    /\ sess = [ w \in Workers |-> IdleSession ]
    /\ detour = NoDetour
    /\ fetch = NoFetch
    /\ seed = NoSeed
    /\ gate = NoGate
    /\ \E candidate_name \in CandidateNames, candidate_category \in CandidateCategories,
          place \in { PlaceGood, PlaceFar, PlaceCafe }, location_bias \in LocationBiases :
          calc = [ done |-> FALSE, candidate_name |-> candidate_name,
                   candidate_category |-> candidate_category, place |-> place,
                   location_bias |-> location_bias, score |-> 0 ]

NextScore == ScoreMatch

SpecScore == InitScore /\ [][NextScore]_vars

(***************************************************************************)
(* Properties of canonicalize_post                                         *)
(***************************************************************************)
LinkedIdx(s) == { s.linked[k].idx : k \in DOMAIN s.linked }

UnmatchedIdx(s) == { s.unmatched[k].idx : k \in DOMAIN s.unmatched }

ReturnedOk(s) == s.pc = "returned" /\ s.error = ""

\* the maximum of score_match over a non-empty result list
MaxScore(candidate, results) ==
    LET scores == { score_match(candidate.place_name, candidate.category, results[i], "") :
                      i \in DOMAIN results }
    IN  CHOOSE m \in scores : \A x \in scores : x <= m

\* C3: a candidate whose search returned is linked iff the result list is
\* non-empty and the maximum score_match over it is >= match_threshold;
\* otherwise it is unmatched with reason "no_results" (empty list) or
\* "below_threshold" (carrying the best score), and the transaction wrote
\* rows for linked candidates only.
C3_LinkedIffBestScoreReachesThreshold ==
    \A w \in Workers :
        LET s == sess[w]
        IN  /\ s.pc \in {"loop", "accepted", "returned"} =>
                \A k \in DOMAIN s.search_calls :
                    LET c == s.search_calls[k]
                        cand == s.candidates[c.idx]
                        res == c.outcome.results
                        accept == res # <<>> /\ MaxScore(cand, res) >= s.threshold
                    IN  (c.idx < s.idx /\ ~c.outcome.raises) =>
                          /\ (c.idx \in LinkedIdx(s)) <=> accept
                          /\ ~accept =>
                               /\ \E u \in Range(s.unmatched) :
                                     /\ u.idx = c.idx
                                     /\ u.candidate = cand
                                     /\ u.reason = IF res = <<>> THEN "no_results"
                                                   ELSE "below_threshold"
                                     /\ u.best_score = IF res = <<>> THEN None
                                                       ELSE MaxScore(cand, res)
                               /\ \A r \in s.new_signals : r.link # <<s.ext_no, c.idx>>
            /\ s.pc \in {"loop", "accepted"} =>
                /\ { r.link[2] : r \in s.new_signals } = LinkedIdx(s)
                /\ Cardinality(s.new_signals) = Len(s.linked)
                /\ { r.id : r \in s.new_pois } \subseteq { l.poi_id : l \in Range(s.linked) }
                /\ { a.poi_id : a \in s.agg_writes } = { l.poi_id : l \in Range(s.linked) }

\* a call returned one candidate linked and another below the threshold
C3_Witness ==
    \E w \in Workers :
        /\ ReturnedOk(sess[w])
        /\ sess[w].linked # <<>>
        /\ \E u \in Range(sess[w].unmatched) : u.reason = "below_threshold" /\ u.best_score > 0

\* C4: no two committed POIs, and no two POIs a transaction sees, share
\* (provider, provider_place_id); every linked entry names the POI that
\* holds its provider place id.
C4_UniqueProviderPlaceId ==
    /\ \A a, b \in pois :
           (a.provider = b.provider /\ a.provider_place_id = b.provider_place_id) => a = b
    /\ \A w \in Workers :
           /\ \A a, b \in VisiblePois(w) :
                  (a.provider = b.provider /\ a.provider_place_id = b.provider_place_id)
                      => a = b
           /\ sess[w].pc \in {"loop", "accepted", "returned"} =>
                  \A l \in Range(sess[w].linked) :
                      \E r \in VisiblePois(w) :
                          r.id = l.poi_id /\ r.provider_place_id = l.provider_place_id

\* two interleaved calls resolved to the same new place: one committed the
\* POI, the other's insert hit the unique index
C4_Witness ==
    \E w \in Workers :
        /\ sess[w].pc = "raised"
        /\ sess[w].error = "IntegrityError"
        /\ \E r \in pois : r.provider_place_id = sess[w].best_place.place_id

\* C5 (as claimed): there is exactly one POISignal per (POI, social post,
\* extraction candidate) link, also after repeated calls for the same post.
C5_OneSignalPerLink ==
    \A a, b \in poi_signals :
        (a.poi_id = b.poi_id /\ a.social_post_id = b.social_post_id /\ a.link = b.link)
            => a = b

\* C6: when calls run one at a time, after a call returns every POI it
\* linked has exactly one POIAggregate, which is the aggregation of all the
\* signals stored for that POI: total_mentions is their number and
\* sources_count counts exactly them.
C6_AggregateOfAllSignals ==
    \A w \in Workers :
        ReturnedOk(sess[w]) =>
            \A l \in Range(sess[w].linked) :
                LET rows == { a \in poi_aggregates : a.poi_id = l.poi_id }
                    sigs == { r \in poi_signals : r.poi_id = l.poi_id }
                IN  /\ Cardinality(rows) = 1
                    /\ \A a \in rows :
                         /\ a.aggregate_json.total_mentions = Cardinality(sigs)
                         /\ DOMAIN a.aggregate_json.sources_count = { r.source : r \in sigs }
                         /\ \A src \in DOMAIN a.aggregate_json.sources_count :
                                a.aggregate_json.sources_count[src] =
                                    Cardinality({ r \in sigs : r.source = src })
                         /\ \E order \in RowOrders(sigs) :
                                a.aggregate_json = compute_aggregate(order)

\* a call returned after linking a POI that already had a signal: its
\* aggregate was replaced by one over two signals from two sources
C6_Witness ==
    \E w \in Workers :
        /\ ReturnedOk(sess[w])
        /\ \E l \in Range(sess[w].linked) :
               \E a \in poi_aggregates :
                   /\ a.poi_id = l.poi_id
                   /\ a.aggregate_json.total_mentions = 2
                   /\ Cardinality(DOMAIN a.aggregate_json.sources_count) = 2

\* C7: when a call returns normally, every candidate with a place_name is in
\* exactly one of linked and unmatched, exactly once, and a candidate without
\* one is in neither.
C7_LinkedUnmatchedPartition ==
    \A w \in Workers :
        LET s == sess[w]
            named == { i \in DOMAIN s.candidates : s.candidates[i].place_name # <<>> }
        IN  ReturnedOk(s) =>
              /\ LinkedIdx(s) \cup UnmatchedIdx(s) = named
              /\ LinkedIdx(s) \cap UnmatchedIdx(s) = {}
              /\ Len(s.linked) + Len(s.unmatched) = Cardinality(named)

\* a call returned for an extraction that holds a candidate without a name
\* and a linked one
C7_Witness ==
    \E w \in Workers :
        /\ ReturnedOk(sess[w])
        /\ \E i \in DOMAIN sess[w].candidates : sess[w].candidates[i].place_name = <<>>
        /\ sess[w].linked # <<>>

\* C8: a step in which the place search raises records the candidate as
\* unmatched with a search-error reason and moves to the next candidate,
\* and changes nothing else: not the linked list, not the rows written, not
\* the call's position in the loop body.
C8_SearchFailureIsolated ==
    [][ \A w \in Workers :
          ( /\ Len(sess'[w].search_calls) = Len(sess[w].search_calls) + 1
            /\ sess'[w].search_calls[Len(sess'[w].search_calls)].outcome.raises )
          => /\ sess'[w] =
                  [ sess[w] EXCEPT
                      !.search_calls = sess'[w].search_calls,
                      !.unmatched = Append(@, [ candidate |-> sess[w].candidates[sess[w].idx],
                                                reason |-> "search_error",
                                                best_score |-> None,
                                                idx |-> sess[w].idx ]),
                      !.idx = @ + 1 ]
             /\ sess'[w].pc = "loop"
             /\ UNCHANGED <<pois, poi_signals, poi_aggregates>> ]_vars

\* a call went on after a failed search and linked the next candidate
C8_Witness ==
    \E w \in Workers :
        \E u \in Range(sess[w].unmatched) :
            /\ u.reason = "search_error"
            /\ \E l \in Range(sess[w].linked) : l.idx > u.idx

\* the search calls canonicalize_post owes to a candidate list, from index i
RECURSIVE ExpectedCalls(_, _)
ExpectedCalls(candidates, i) ==
    IF i > Len(candidates) THEN <<>>
    ELSE ( IF candidates[i].place_name # <<>>
           THEN << [ idx |-> i, query |-> BuildQuery(candidates[i]), max_results |-> 3 ] >>
           ELSE <<>> ) \o ExpectedCalls(candidates, i + 1)

CallsMade(s) ==
    [ k \in DOMAIN s.search_calls |->
        [ idx |-> s.search_calls[k].idx, query |-> s.search_calls[k].query,
          max_results |-> s.search_calls[k].max_results ] ]

\* C9: a call that returns normally has invoked the place search exactly once
\* per candidate with a place_name of the extraction it loaded, in candidate
\* order, each time asking for 3 results; with zero candidates it made no
\* search and returns empty lists without an error.
C9_OneSearchPerNamedCandidate ==
    /\ [] \A w \in Workers :
            ReturnedOk(sess[w]) =>
                /\ CallsMade(sess[w]) = ExpectedCalls(sess[w].candidates, 1)
                /\ sess[w].candidates = <<>> =>
                       /\ sess[w].search_calls = <<>>
                       /\ sess[w].linked = <<>> /\ sess[w].unmatched = <<>>
    /\ [][ \A w \in Workers :
              (sess[w].pc = "idle" /\ sess'[w].pc # "idle") =>
                  LET exts == social_extractions[sess'[w].post]
                  IN  /\ sess'[w].ext_no = Len(exts)
                      /\ exts # <<>> => sess'[w].candidates = exts[Len(exts)] ]_vars

\* one call returned for an extraction with zero candidates; after a second
\* extraction was stored for the post, another call returned having skipped
\* the candidate without a name and searched the other
C9_Witness ==
    \E w1, w2 \in Workers :
        /\ ReturnedOk(sess[w1]) /\ sess[w1].ext_no = 1 /\ sess[w1].candidates = <<>>
        /\ ReturnedOk(sess[w2]) /\ sess[w2].ext_no = 2
        /\ sess[w2].post = sess[w1].post
        /\ Len(sess[w2].candidates) = 2
        /\ sess[w2].candidates[1].place_name = <<>>
        /\ Len(sess[w2].search_calls) = 1

\* C10: a call for a post that had no extraction ends with the error
\* indicator and empty linked and unmatched lists, has made no search and
\* has written no row.
C10_NoExtractionIsAnError ==
    \A w \in Workers :
        LET s == sess[w]
        IN  (s.pc # "idle" /\ s.ext_no = 0) =>
              /\ s.pc = "returned"
              /\ s.error = "No extraction found"
              /\ s.linked = <<>> /\ s.unmatched = <<>>
              /\ s.search_calls = <<>>
              /\ s.new_pois = {} /\ s.new_signals = {} /\ s.agg_writes = {}

\* a call for a post without extraction returned while the knowledge base
\* held a POI
C10_Witness ==
    \E w \in Workers :
        /\ sess[w].pc = "returned"
        /\ sess[w].error = "No extraction found"
        /\ pois # {}

\* the row ids a call holds in its open transaction
PendingIds(s) == { r.id : r \in s.new_pois } \cup { r.id : r \in s.new_signals }

\* C11: canonicalize_post commits once, as one batch: the tables change only
\* in the step that commits everything a call wrote; the rows of an open
\* transaction are in no table; and when a call fails partway the tables
\* stay as they are and every row it had written for earlier candidates is
\* discarded.
C11_OneBatchPerPost ==
    /\ [] \A w \in Workers :
            /\ sess[w].new_pois \cap pois = {}
            /\ sess[w].new_signals \cap poi_signals = {}
            /\ \A i \in PendingIds(sess[w]) :
                   /\ i < next_id
                   /\ i \notin { r.id : r \in pois } \cup { r.id : r \in poi_signals }
            /\ sess[w].pc \in {"idle", "raised"} =>
                   /\ sess[w].new_pois = {} /\ sess[w].new_signals = {}
                   /\ sess[w].agg_writes = {}
    /\ [][ \A w \in Workers :
             (sess[w].pc # "raised" /\ sess'[w].pc = "raised") =>
                 /\ UNCHANGED <<pois, poi_signals, poi_aggregates>>
                 /\ sess'[w].linked = <<>> ]_vars
    /\ [][ <<pois, poi_signals, poi_aggregates>>' # <<pois, poi_signals, poi_aggregates>> =>
             \E w \in Workers :
                 /\ sess[w].pc = "loop" /\ sess'[w].pc = "returned"
                 /\ pois' = pois \cup sess[w].new_pois
                 /\ poi_signals' = poi_signals \cup sess[w].new_signals
                 /\ \A a \in sess[w].agg_writes : AggregateRow(a) \in poi_aggregates'
                 /\ \A c \in poi_aggregates' \ poi_aggregates :
                        \E a \in sess[w].agg_writes : AggregateRow(a) = c ]_vars

\* a call that had linked its first candidate failed on the second: the
\* insert of the POI hit the unique index
C11_Witness ==
    \E w \in Workers :
        LET s == sess[w]
        IN  /\ s.pc = "raised"
            /\ s.idx = 2
            /\ Len(s.search_calls) = 2
            /\ ~s.search_calls[1].outcome.raises
            /\ s.search_calls[1].outcome.results # <<>>
            /\ MaxScore(s.candidates[1], s.search_calls[1].outcome.results) >= s.threshold

(***************************************************************************)
(* Properties of suggest_detours                                           *)
(***************************************************************************)
\* C1: whatever the knowledge base and the arguments (max_results >= 0, with
\* or without must_be_open, with or without a user_id), suggest_detours
\* returns at most max_results suggestions.
C1_AtMostMaxResults ==
    (detour.called /\ detour.args.max_results >= 0) =>
        Len(detour.results) <= detour.args.max_results

\* a must_be_open call for a user that had more candidates than max_results,
\* dropped a closed place and returned exactly max_results suggestions
C1_Witness ==
    /\ detour.called
    /\ detour.args.must_be_open /\ detour.args.user_id # ""
    /\ detour.args.max_results > 0
    /\ detour.corridor_candidates > detour.args.max_results
    /\ Len(detour.details_calls) > Len(detour.results)
    /\ Len(detour.results) = detour.args.max_results

\* sub is seq with some elements left out
RECURSIVE IsSubsequence(_, _)
IsSubsequence(sub, seq) ==
    IF sub = <<>> THEN TRUE
    ELSE IF seq = <<>> THEN FALSE
    ELSE IF Head(sub) = Head(seq) THEN IsSubsequence(Tail(sub), Tail(seq))
    ELSE IsSubsequence(sub, Tail(seq))

\* C2: the suggestions returned are in non-increasing order of final rank
\* score, and they are the shortlist (the candidates in rank order) with
\* entries left out, never reordered, also when must_be_open drops some.
C2_RankOrderKept ==
    detour.called =>
        /\ \A i, j \in DOMAIN detour.results :
               i < j => detour.results[i].rank_score >= detour.results[j].rank_score
        /\ IsSubsequence([ i \in DOMAIN detour.results |->
                             (CHOOSE p \in pois : p.id = detour.results[i].poi_id)
                                 .provider_place_id ],
                         detour.shortlist)

\* a must_be_open call for a user whose memories changed the ranks dropped
\* the closed head of the shortlist and returned two suggestions of different
\* rank
C2_Witness ==
    /\ detour.called
    /\ detour.args.must_be_open
    /\ detour.args.user_id # "" /\ detour.args.retrieval.memories # <<>>
    /\ Len(detour.results) = 2
    /\ detour.results[1].rank_score > detour.results[2].rank_score
    /\ Len(detour.shortlist) = 3
    /\ detour.args.hours[detour.shortlist[1]] = "closed"

\* the places of details_calls that the open-hours check keeps
RECURSIVE NotClosed(_, _)
NotClosed(place_ids, hours) ==
    IF place_ids = <<>> THEN <<>>
    ELSE (IF hours[Head(place_ids)] = "closed" THEN <<>> ELSE <<Head(place_ids)>>)
             \o NotClosed(Tail(place_ids), hours)

\* the provider place id of the POI a suggestion names
PlaceIdOf(suggestion) == (CHOOSE p \in pois : p.id = suggestion.poi_id).provider_place_id

\* C12: with must_be_open the call returns, and what it returns are the
\* examined POIs whose lookup did not report the place closed, in order, cut
\* at max_results: no suggestion has is_open = false, a POI reported open has
\* is_open = true, and a POI whose hours are unknown, whose details are
\* missing or whose lookup raised is kept with is_open = null.
C12_DroppedOnlyWhenKnownClosed ==
    (detour.called /\ detour.args.must_be_open /\ detour.shortlist # <<>>) =>
        LET hours == detour.args.hours
            kept == Prefix(NotClosed(detour.details_calls, hours), detour.args.max_results)
        IN  /\ Len(detour.results) = Len(kept)
            /\ \A i \in DOMAIN detour.results :
                   /\ PlaceIdOf(detour.results[i]) = kept[i]
                   /\ detour.results[i].is_open # "False"
                   /\ detour.results[i].is_open =
                          IF hours[kept[i]] = "open" THEN "True" ELSE "None"
            /\ \A i \in DOMAIN detour.details_calls :
                   detour.details_calls[i] = detour.shortlist[i]

\* one call examined a POI whose lookup raised and returned it, dropped a
\* closed one, and returned one whose details were missing
C12_Witness ==
    /\ detour.called /\ detour.args.must_be_open
    /\ \E g \in Range(detour.details_calls) : detour.args.hours[g] = "closed"
    /\ \E i, j \in DOMAIN detour.results :
           /\ detour.args.hours[PlaceIdOf(detour.results[i])] = "raises"
           /\ detour.args.hours[PlaceIdOf(detour.results[j])] = "none"
           /\ detour.results[j].is_open = "None"

\* the POI row a suggestion names
PoiOf(suggestion) == CHOOSE p \in pois : p.id = suggestion.poi_id

\* the keyword set of a filter category: its entry in CATEGORY_FILTER_MAP,
\* empty when it has none
KeywordsOf(category_filter) ==
    IF category_filter \in DOMAIN CATEGORY_FILTER_MAP
    THEN Range(CATEGORY_FILTER_MAP[category_filter]) ELSE {}

\* C13 (as claimed): under a category_filter other than "any" every
\* suggestion returned has a provider type that contains a keyword of the
\* filter's keyword set; a POI with no categories is never returned.
C13_EverySuggestionMatchesFilter ==
    (detour.called /\ detour.args.category_filter # "any") =>
        \A i \in DOMAIN detour.results :
            LET categories == PoiOf(detour.results[i]).categories
            IN  /\ categories # <<>>
                /\ \E k \in DOMAIN categories :
                       \E kw \in KeywordsOf(detour.args.category_filter) :
                           Contains(Lower(categories[k]), kw)

\* the POIs the query returns that pass the corridor, category and
\* detour-time tests of a call
PassOtherFilters(args) ==
    { p \in pois :
        /\ InBox(p, bounding_box(args.origin, args.dest, corridor_buffer_km))
        /\ is_within_corridor(p.loc, args.origin, args.dest, corridor_buffer_km).within
        /\ PassesCategory(p, args.category_filter)
        /\ estimate_detour_minutes(args.origin, p.loc, args.dest) <= args.max_detour_minutes }

\* C14: with price_level_max set, no suggestion has a known price_level
\* above it, and of the POIs that pass the other filters the price filter
\* removes exactly those with a known price_level above it, so none whose
\* price_level is unknown; with price_level_max not set it removes none.
C14_PriceFilter ==
    detour.called =>
        LET max == detour.args.price_level_max
            others == PassOtherFilters(detour.args)
            removed == { p \in others : max # None /\ p.price_level # None /\ p.price_level > max }
            kept == others \ removed
        IN  /\ \A i \in DOMAIN detour.results :
                   max # None =>
                       \/ PoiOf(detour.results[i]).price_level = None
                       \/ PoiOf(detour.results[i]).price_level <= max
            /\ detour.corridor_candidates = Cardinality(kept)
            /\ Range(detour.shortlist) \subseteq { p.provider_place_id : p \in kept }
            /\ Len(detour.shortlist) = Min(Cardinality(kept), 2 * detour.args.max_results)
            /\ max = None => detour.corridor_candidates = Cardinality(others)
            /\ \A p \in others : p.price_level = None => p \in kept

\* a call with price_level_max = 2 returned a POI of unknown price_level
\* while a POI of price_level 3 that passed the other filters was removed
C14_Witness ==
    /\ detour.called /\ detour.args.price_level_max = 2
    /\ \E i \in DOMAIN detour.results : PoiOf(detour.results[i]).price_level = None
    /\ \E p \in PassOtherFilters(detour.args) :
           p.price_level = 3 /\ p.provider_place_id \notin Range(detour.shortlist)
    /\ Len(detour.shortlist) < 2 * detour.args.max_results

\* the score of the POI's aggregate row, 0 without one (as the social_score
\* of a candidate)
SocialScoreOf(p) ==
    LET rows == { a \in poi_aggregates : a.poi_id = p.id }
    IN  IF rows = {} THEN 0 ELSE (CHOOSE a \in rows : TRUE).score * 10

\* the POIs the query of a call returns
InQueryBox(args) ==
    { p \in pois : InBox(p, bounding_box(args.origin, args.dest, corridor_buffer_km)) }

\* C15: every suggestion returned passed both route tests on the unrounded
\* values: the distance of its POI to the route segment is <= buffer_km and
\* its estimated detour is <= max_detour_minutes; the rounded values it
\* reports are those two values.
C15_RouteFiltersHold ==
    detour.called =>
        \A i \in DOMAIN detour.results :
            LET p == PoiOf(detour.results[i])
                dist == point_to_segment_distance_km(p.loc, detour.args.origin, detour.args.dest)
                mins == estimate_detour_minutes(detour.args.origin, p.loc, detour.args.dest)
            IN  /\ dist <= corridor_buffer_km
                /\ mins <= detour.args.max_detour_minutes
                /\ detour.results[i].corridor_distance_km = Round(dist, 10)
                /\ detour.results[i].adds_minutes = Round(mins, 100)

\* a call with memories returned a POI while the query had also returned a
\* POI outside the corridor whose social score is higher and whose name a
\* preference memory matches
C15_Witness ==
    /\ detour.called /\ detour.results # <<>>
    /\ detour.args.user_id # "" /\ MemPref \in Range(detour.args.retrieval.memories)
    /\ \E p \in InQueryBox(detour.args) :
           /\ point_to_segment_distance_km(p.loc, detour.args.origin, detour.args.dest)
                  > corridor_buffer_km
           /\ Contains(Lower(p.name), <<"r","a","m","e","n">>)
           /\ \E i \in DOMAIN detour.results :
                  SocialScoreOf(p) > SocialScoreOf(PoiOf(detour.results[i]))

\* a call returned a POI while a POI inside the corridor was left out
\* because its detour takes longer than max_detour_minutes
C15_WitnessDetourTime ==
    /\ detour.called /\ detour.results # <<>>
    /\ \E p \in InQueryBox(detour.args) :
           /\ point_to_segment_distance_km(p.loc, detour.args.origin, detour.args.dest)
                  <= corridor_buffer_km
           /\ estimate_detour_minutes(detour.args.origin, p.loc, detour.args.dest)
                  > detour.args.max_detour_minutes

\* aggregate_json of the POI's aggregate row, {} without one
AggJsonOf(p) ==
    LET rows == { a \in poi_aggregates : a.poi_id = p.id }
    IN  IF rows = {} THEN EmptyAggJson ELSE (CHOOSE a \in rows : TRUE).aggregate_json

\* social_score * 0.6 + proximity_score * 0.4 of a POI for a call
BaseScoreOf(p, args) ==
    LET dist == point_to_segment_distance_km(p.loc, args.origin, args.dest)
        proximity_score == Max(0, 10000 - (dist * 10000) \div corridor_buffer_km)
    IN  (SocialScoreOf(p) * 6 + proximity_score * 4) \div 10

\* some word of the memory longer than 3 characters occurs in a top vibe
\* tag, a top what-to-order item or the name of the POI
WordInCombined(memory, p) ==
    \E word \in LongWords(Lower(memory.text)) :
        \/ \E tag \in Range(AggJsonOf(p).top_vibe_tags) : Contains(Lower(tag), word)
        \/ \E item \in Range(AggJsonOf(p).top_what_to_order) : Contains(Lower(item), word)
        \/ Contains(Lower(p.name), word)

\* some word of the memory longer than 3 characters occurs in a warning
WordInWarnings(memory, p) ==
    \E word \in LongWords(Lower(memory.text)) :
        \E wn \in AggJsonOf(p).warnings : Contains(Lower(wn), word)

\* C16: with a user identity and memories retrieved, the final rank score of
\* every suggestion is its base score plus 0.3 per preference memory with a
\* long word in the combined text, minus 0.5 per constraint memory with a
\* long word in the combined text or the warnings; each memory counts once
\* and memories of other types count nothing.
C16_MemoryRerankScore ==
    ( /\ detour.called /\ detour.args.user_id # ""
      /\ ~detour.args.retrieval.raises /\ detour.args.retrieval.memories # <<>> ) =>
        \A i \in DOMAIN detour.results :
            LET p == PoiOf(detour.results[i])
                memories == detour.args.retrieval.memories
                boosts == { k \in DOMAIN memories :
                              memories[k].type = "preference" /\ WordInCombined(memories[k], p) }
                penalties == { k \in DOMAIN memories :
                                 /\ memories[k].type = "constraint"
                                 /\ WordInCombined(memories[k], p) \/ WordInWarnings(memories[k], p) }
            IN  detour.results[i].rank_score =
                    BaseScoreOf(p, detour.args) + 3000 * Cardinality(boosts)
                        - 5000 * Cardinality(penalties)

\* a suggestion whose preference memory matches by two words (+0.3 once),
\* whose constraint memory matches the warnings only (-0.5), and whose
\* episode memory matches but counts nothing
C16_Witness ==
    /\ detour.called /\ detour.args.user_id # ""
    /\ detour.args.retrieval.memories = <<MemEpisode, MemCons, MemPref>>
    /\ \E i \in DOMAIN detour.results :
           LET p == PoiOf(detour.results[i])
           IN  /\ Cardinality({ word \in LongWords(Lower(MemPref.text)) :
                                  WordInCombined([MemPref EXCEPT !.text = word], p) }) >= 2
               /\ WordInWarnings(MemCons, p) /\ ~WordInCombined(MemCons, p)
               /\ WordInCombined(MemEpisode, p)
               /\ detour.results[i].rank_score = BaseScoreOf(p, detour.args) - 2000

\* the rows the query of the call returned, in the order it returned them
RowsOf(d) == [ i \in DOMAIN d.rows |-> CHOOSE p \in pois : p.provider_place_id = d.rows[i] ]

\* the same call without a user identity
WithoutUser(args) ==
    [ args EXCEPT !.user_id = "", !.retrieval = [raises |-> FALSE, memories |-> <<>>] ]

\* C17: when memory retrieval raises, the call returns exactly the
\* suggestions, in the same order, that the same call on the same rows
\* returns without a user identity, and every final rank score is the base
\* score; without a user identity memory retrieval is not called.
C17_RetrievalFailureSkipsReranking ==
    /\ (detour.called /\ detour.args.user_id # "" /\ detour.args.retrieval.raises) =>
           /\ detour.results = suggest_detours(WithoutUser(detour.args), RowsOf(detour)).results
           /\ \A i \in DOMAIN detour.results :
                  detour.results[i].rank_score =
                      BaseScoreOf(PoiOf(detour.results[i]), detour.args)
    /\ (detour.called /\ detour.args.user_id = "") => detour.memory_calls = <<>>

\* a call with a user identity whose retrieval was called and raised
\* returned two suggestions
C17_Witness ==
    /\ detour.called /\ detour.args.user_id # "" /\ detour.args.retrieval.raises
    /\ detour.memory_calls # <<>>
    /\ Len(detour.results) >= 2

(***************************************************************************)
(* Properties of _fetch_detour_candidates                                  *)
(***************************************************************************)
\* C18: _fetch_detour_candidates propagates no exception and returns a
\* reason exactly when its list is empty: the "no location" reason without
\* location context (suggest_detours is then not called), the "no POIs"
\* reason when suggest_detours returned an empty list, the "failed" reason
\* with the error message when it raised; the three reasons differ from one
\* another, and the reason is None when the list is not empty.
C18_ReasonIffEmpty ==
    fetch.done =>
        LET no_location == "no location context provided"
            no_pois == "no POIs found in corridor for this area"
            failed == "detour query failed: " \o fetch.message
        IN  /\ ~fetch.propagated
            /\ (fetch.reason # "None") <=> (fetch.results = <<>>)
            /\ ~fetch.location.given <=> fetch.suggest = "not_called"
            /\ fetch.suggest = "not_called" =>
                   fetch.reason = no_location /\ ~detour.called
            /\ (fetch.suggest = "returned" /\ detour.results = <<>>) =>
                   fetch.reason = no_pois
            /\ fetch.suggest = "raised" => fetch.reason = failed
            /\ (fetch.suggest = "returned" /\ detour.results # <<>>) =>
                   fetch.reason = "None" /\ fetch.results = detour.results
            /\ fetch.reason \in {"None", no_location, no_pois, failed}
            /\ Cardinality({"None", no_location, no_pois, failed}) = 4

\* suggest_detours raised inside a call with location context, and the call
\* returned the empty list with the "failed" reason
C18_Witness ==
    /\ fetch.done /\ fetch.location.given /\ fetch.suggest = "raised"
    /\ detour.called
    /\ fetch.results = <<>>
    /\ fetch.reason = "detour query failed: DB connection lost"

(***************************************************************************)
(* Properties of compute_aggregate and compute_score                       *)
(***************************************************************************)
\* C19 (as claimed): compute_aggregate and compute_score raise on no signal
\* list, whatever the payload fields hold: a list field that is null or not
\* a list counts as empty, a why_special that is not a string and a null
\* confidence count as absent, and everything else is aggregated.
C19_MalformedPayloadNeverRaises ==
    calc.done =>
        /\ ~calc.raises
        /\ LET Clean(v) == IF v.type = "list" THEN v ELSE JList(<<>>)
               CleanWhy(v) == IF v.type = "string" THEN v ELSE JString(<<>>)
               cleaned == [ i \in DOMAIN calc.signals |->
                   ReadSignal([ calc.signals[i] EXCEPT
                       !.signal_json = [ f \in DOMAIN @ |->
                           IF f \in ListFields THEN Clean(@[f]) ELSE CleanWhy(@[f]) ] ]) ]
           IN  calc.aggregate_json = compute_aggregate(cleaned)

\* every value the loops of compute_aggregate iterated for one field, in
\* signal order
ItemsOf(signals, field) ==
    FlattenSeq([ i \in DOMAIN signals |-> Iterate(signals[i].signal_json[field]).items ])

FirstIndex(items, x) == CHOOSE i \in DOMAIN items : items[i] = x /\ \A j \in 1..(i - 1) : items[j] # x

\* x comes before y in the order of most_common: more occurrences, or as many
\* and seen first
RanksBefore(items, x, y) ==
    \/ CountOf(items, x) > CountOf(items, y)
    \/ CountOf(items, x) = CountOf(items, y) /\ FirstIndex(items, x) < FirstIndex(items, y)

\* result is the first n distinct values of items in that order
IsTopN(result, items, n) ==
    /\ Len(result) = Min(n, Cardinality(Range(items)))
    /\ Range(result) \subseteq Range(items)
    /\ \A i, j \in DOMAIN result : i < j => RanksBefore(items, result[i], result[j])
    /\ \A x \in Range(items) \ Range(result) :
           \A i \in DOMAIN result : RanksBefore(items, result[i], x)

\* C20: compute_aggregate returns at most 10 top_vibe_tags, 10
\* top_what_to_order and 5 best_time_windows, each the most frequent values
\* over all signals by descending number of occurrences with ties in
\* first-encountered order, and total_mentions is the number of signals; for
\* no signals every list is empty and total_mentions is 0.
C20_TopListsCappedAndOrdered ==
    (calc.done /\ calc.raised_in # "compute_aggregate") =>
        LET agg == calc.aggregate_json
        IN  /\ Len(agg.top_vibe_tags) <= 10
            /\ Len(agg.top_what_to_order) <= 10
            /\ Len(agg.best_time_windows) <= 5
            /\ IsTopN(agg.top_vibe_tags, ItemsOf(calc.signals, "vibe_tags"), 10)
            /\ IsTopN(agg.top_what_to_order, ItemsOf(calc.signals, "what_to_order"), 10)
            /\ IsTopN(agg.best_time_windows, ItemsOf(calc.signals, "best_time_windows"), 5)
            /\ agg.total_mentions = Len(calc.signals)
            /\ calc.signals = <<>> =>
                   /\ agg.top_vibe_tags = <<>> /\ agg.top_what_to_order = <<>>
                   /\ agg.best_time_windows = <<>> /\ agg.why_special_snippets = <<>>
                   /\ agg.warnings = {} /\ agg.total_mentions = 0

\* three signals with 12 distinct vibe tags and 6 distinct time windows: the
\* lists are cut at 10 and 5, and a tag mentioned twice late in the input
\* stands ahead of a tag mentioned once before it
C20_Witness ==
    /\ calc.done /\ ~calc.raises /\ Len(calc.signals) = 3
    /\ Cardinality(Range(ItemsOf(calc.signals, "vibe_tags"))) > 10
    /\ Cardinality(Range(ItemsOf(calc.signals, "best_time_windows"))) > 5
    /\ Len(calc.aggregate_json.top_vibe_tags) = 10
    /\ Len(calc.aggregate_json.best_time_windows) = 5
    /\ LET items == ItemsOf(calc.signals, "vibe_tags")
           top == calc.aggregate_json.top_vibe_tags
       IN  \E i, j \in DOMAIN top :
               /\ i < j
               /\ CountOf(items, top[i]) > CountOf(items, top[j])
               /\ FirstIndex(items, top[i]) > FirstIndex(items, top[j])

\* every payload field of every signal has the type the data model gives it
WellFormed(signals) ==
    \A i \in DOMAIN signals :
        /\ \A f \in ListFields : signals[i].signal_json[f].type = "list"
        /\ signals[i].signal_json.why_special.type = "string"

\* the non-empty why_special strings of the signals, in signal order
WhysOf(signals) ==
    FlattenSeq([ i \in DOMAIN signals |->
        IF signals[i].signal_json.why_special.value # <<>>
        THEN <<signals[i].signal_json.why_special.value>> ELSE <<>> ])

\* C21: for well-formed signals, warnings is the set of the distinct warning
\* strings of the signals; why_special_snippets holds at most 5 pairwise
\* distinct non-empty strings, the first 5 distinct ones in first-seen
\* order; sources_count gives each source its number of signals and its
\* values sum to total_mentions.
C21_WarningsSnippetsSources ==
    (calc.done /\ WellFormed(calc.signals)) =>
        LET agg == calc.aggregate_json
            snippets == agg.why_special_snippets
            whys == WhysOf(calc.signals)
            counts == agg.sources_count
        IN  /\ agg.warnings = Range(ItemsOf(calc.signals, "warnings"))
            /\ Len(snippets) = Min(5, Cardinality(Range(whys)))
            /\ \A i \in DOMAIN snippets : snippets[i] # <<>> /\ snippets[i] \in Range(whys)
            /\ \A i, j \in DOMAIN snippets :
                   i < j => /\ snippets[i] # snippets[j]
                            /\ FirstIndex(whys, snippets[i]) < FirstIndex(whys, snippets[j])
            /\ \A x \in Range(whys) \ Range(snippets) :
                   \A i \in DOMAIN snippets : FirstIndex(whys, snippets[i]) < FirstIndex(whys, x)
            /\ DOMAIN counts = { calc.signals[i].source : i \in DOMAIN calc.signals }
            /\ \A s \in DOMAIN counts :
                   counts[s] = Cardinality({ i \in DOMAIN calc.signals : calc.signals[i].source = s })
            /\ SumSeq([ i \in 1..Cardinality(DOMAIN counts) |->
                          counts[(CHOOSE order \in RowOrders(DOMAIN counts) : TRUE)[i]] ])
                   = agg.total_mentions

\* eight signals of two sources with a repeated and an empty why_special and
\* six different ones: five snippets are kept, the shared warning once
C21_Witness ==
    /\ calc.done /\ WellFormed(calc.signals) /\ Len(calc.signals) = 8
    /\ Cardinality(Range(WhysOf(calc.signals))) = 6
    /\ Len(WhysOf(calc.signals)) = 7
    /\ \E i \in DOMAIN calc.signals : calc.signals[i].signal_json.why_special.value = <<>>
    /\ Len(calc.aggregate_json.why_special_snippets) = 5
    /\ calc.aggregate_json.warnings = { <<"x">> }
    /\ Cardinality(DOMAIN calc.aggregate_json.sources_count) = 2

\* the world drawn for the m-th attempted row, and that row
WorldOf(m) == seed.worlds[m]

RowOf(m) == seed.file[seed.rows[m]]

\* the m-th attempted row has a valid source and its ingest succeeds
IngestOk(m) ==
    /\ RowOf(m).source \in SocialSources
    /\ ~(RowOf(m).source = "manual" /\ RowOf(m).raw_text = <<>>)
    /\ ~WorldOf(m).ingest_raises

ExtractionFails(m) ==
    /\ IngestOk(m) /\ ~seed.skip_extract /\ RowOf(m).raw_text # <<>>
    /\ WorldOf(m).extraction_raises

CanonFails(m) ==
    /\ IngestOk(m) /\ ~seed.skip_extract /\ RowOf(m).raw_text # <<>>
    /\ ~WorldOf(m).extraction_raises
    /\ ~seed.skip_canonicalize /\ WorldOf(m).candidates > 0
    /\ WorldOf(m).canon_raises

\* C22: in a run that is no dry run the selected rows (all rows of the file
\* without a source filter and a limit) are attempted one after the other in
\* file order whatever failed before; the run ends exactly when all were
\* attempted; every failing row has one entry in errors, extraction failures
\* are counted in extraction_failures, inserted_posts is the number of rows
\* whose ingest succeeded and these posts are committed; the post of a row
\* whose extraction failed stays committed and canonicalize_post was not
\* called for it.
C22_RowFailuresAreIsolated ==
    (seed.started /\ ~seed.dry_run) =>
        LET n == seed.i
            summary == seed.summary
            failing == { m \in 1..n : ~IngestOk(m) \/ ExtractionFails(m) \/ CanonFails(m) }
        IN  /\ (seed.source_filter = "" /\ seed.limit = None) =>
                   seed.rows = [ k \in DOMAIN seed.file |-> k ]
            /\ seed.attempted = SubSeq(seed.rows, 1, n)
            /\ seed.done <=> (n = Len(seed.rows))
            /\ ~seed.done => ENABLED ProcessOneRow
            /\ Len(summary.errors) = Cardinality(failing)
            /\ { e.row : e \in Range(summary.errors) } = { seed.rows[m] : m \in failing }
            /\ summary.extraction_failures = Cardinality({ m \in 1..n : ExtractionFails(m) })
            /\ summary.inserted_posts = Cardinality({ m \in 1..n : IngestOk(m) })
            /\ Range(seed.posts) = { seed.rows[m] : m \in { k \in 1..n : IngestOk(k) } }
            /\ Len(seed.posts) = summary.inserted_posts
            /\ \A m \in 1..n : ExtractionFails(m) =>
                   /\ seed.rows[m] \in Range(seed.posts)
                   /\ seed.rows[m] \notin Range(seed.canon_calls)
                   /\ seed.rows[m] \notin Range(seed.extractions)

\* a finished run over two rows: the first has an invalid source, the
\* extraction of the second fails; or the extraction of the first fails and
\* the second is canonicalized
C22_Witness ==
    /\ seed.done /\ ~seed.dry_run /\ seed.i = 2
    /\ ExtractionFails(1) /\ IngestOk(2)
    /\ seed.posts = <<1, 2>>
    /\ seed.canon_calls = <<2>>
    /\ seed.summary.linked_pois = 1
    /\ seed.summary.extraction_failures = 1
    /\ Len(seed.summary.errors) = 1

\* a finished run whose first row has an invalid source and whose second
\* row is inserted
C22_WitnessInvalidSource ==
    /\ seed.done /\ ~seed.dry_run /\ seed.i = 2
    /\ RowOf(1).source \notin SocialSources /\ IngestOk(2)
    /\ seed.posts = <<2>>
    /\ seed.summary.inserted_posts = 1

\* the candidates at the positions in A, in batch order
CandidatesAt(A) ==
    FlattenSeq([ k \in DOMAIN gate.candidates |->
        IF k \in A THEN <<gate.candidates[k]>> ELSE <<>> ])

\* the value under explicit_user_consent counts as consent
HasConsent(candidate) == candidate.structured_json \in {"true", "text"}

\* the confidence thresholds of the write gate
PassesGate(candidate) ==
    \/ candidate.sensitivity = "low" /\ candidate.confidence >= 750
    \/ candidate.sensitivity = "med" /\ candidate.confidence >= 850
    \/ candidate.sensitivity = "high" /\ HasConsent(candidate) /\ candidate.confidence >= 750

\* A is the set of approved positions: k is in A exactly when the
\* normalized text of candidate k is the text of no existing memory and of
\* no earlier member of A, and the candidate passes the gate
IsApprovedSet(A) ==
    LET Norm(k) == normalize_text(gate.candidates[k].text)
    IN  \A k \in DOMAIN gate.candidates :
            k \in A <=>
                /\ \A i \in DOMAIN gate.existing_texts :
                       normalize_text(gate.existing_texts[i]) # Norm(k)
                /\ \A j \in A : j < k => Norm(j) # Norm(k)
                /\ PassesGate(gate.candidates[k])

\* C23: evaluate_candidates splits the batch into approved and rejected by
\* position, approving a candidate exactly when its normalized text is new
\* (no existing memory, no candidate approved earlier in the batch) and it
\* passes the write gate; no approved candidate is of high sensitivity
\* without consent (a true value under explicit_user_consent) and no two
\* approved candidates have the same normalized text.
C23_WriteGate ==
    gate.done =>
        /\ \E A \in SUBSET DOMAIN gate.candidates :
               /\ IsApprovedSet(A)
               /\ gate.approved = CandidatesAt(A)
               /\ gate.rejected = CandidatesAt(DOMAIN gate.candidates \ A)
        /\ Len(gate.approved) + Len(gate.rejected) = Len(gate.candidates)
        /\ \A i \in DOMAIN gate.approved :
               /\ gate.approved[i].sensitivity = "high" => HasConsent(gate.approved[i])
               /\ \A j \in DOMAIN gate.approved :
                      i # j => normalize_text(gate.approved[i].text)
                                   # normalize_text(gate.approved[j].text)

\* a batch of three: a high-sensitivity candidate without consent and with
\* high confidence is rejected, one with consent is approved, and a later
\* candidate that passes the gate is rejected for repeating its text
C23_Witness ==
    /\ gate.done /\ Len(gate.candidates) = 3
    /\ gate.candidates[1].sensitivity = "high" /\ ~HasConsent(gate.candidates[1])
    /\ gate.candidates[1].confidence >= 900
    /\ gate.candidates[2].sensitivity = "high" /\ HasConsent(gate.candidates[2])
    /\ PassesGate(gate.candidates[3])
    /\ gate.candidates[3].text # gate.candidates[2].text
    /\ gate.approved = <<gate.candidates[2]>>
    /\ gate.rejected = <<gate.candidates[1], gate.candidates[3]>>

\* the tables InitRace starts from are tables canonicalize_post produces
RaceStartReachable ==
    /\ pois = { NewPOI(1, PlaceGood, 0) }
    /\ poi_signals = { FirstSignal }
    /\ poi_aggregates = { AggregateRow(UpdateAggregate(1, <<FirstSignal>>, {}, {}, 0)) }
    /\ next_id = 3 /\ calls = 1 /\ now = 0
    /\ \A w \in Workers : sess[w].pc = "idle"

\* the committed signals of a POI
SignalsOf(poi_id) == { r \in poi_signals : r.poi_id = poi_id }

\* the committed aggregate of the POI leaves out a committed signal
Stale(poi_id) ==
    \E a \in poi_aggregates :
        a.poi_id = poi_id /\ a.aggregate_json.total_mentions < Cardinality(SignalsOf(poi_id))

\* the step in which the call of worker w commits
Commits(w) == sess[w].pc = "loop" /\ sess'[w].pc = "returned"

\* a commit adds the call's signals and replaces the aggregates it
\* recomputed (the last commit wins); no committed signal ever goes away
NoSignalLost ==
    /\ poi_signals \subseteq poi_signals'
    /\ \A w \in Workers : Commits(w) =>
           /\ sess[w].new_signals \subseteq poi_signals'
           /\ \A a \in sess[w].agg_writes : AggregateRow(a) \in poi_aggregates'

\* the aggregates a call that ran alone commits are aggregations of all the
\* signals then stored for their POIs, in some row order
AloneRecomputeIsComplete ==
    \A w \in Workers : (Commits(w) /\ sess[w].alone) =>
        \A a \in sess[w].agg_writes :
            \E signals \in RowOrders({ r \in poi_signals' : r.poi_id = a.poi_id }) :
                a.aggregate_json = compute_aggregate(signals)

\* no call is running and the aggregate of the POI counts all its signals
Settled(a) == (\A w \in Workers : ~Running(sess[w])) /\ ~Stale(a.poi_id)

\* another recompute changes nothing in a settled aggregate
RecomputeLeavesUnchanged ==
    \A a \in poi_aggregates : Settled(a) =>
        \A signals \in RowOrders(SignalsOf(a.poi_id)) :
            compute_aggregate(signals) = a.aggregate_json

\* another recompute of a settled aggregate gives the same counts, the same
\* warnings and the same members of every list
RecomputeLeavesContentUnchanged ==
    \A a \in poi_aggregates : Settled(a) =>
        \A signals \in RowOrders(SignalsOf(a.poi_id)) :
            LET again == compute_aggregate(signals)
                old == a.aggregate_json
            IN  /\ again.total_mentions = old.total_mentions
                /\ again.sources_count = old.sources_count
                /\ again.warnings = old.warnings
                /\ Range(again.top_vibe_tags) = Range(old.top_vibe_tags)
                /\ Range(again.top_what_to_order) = Range(old.top_what_to_order)
                /\ Range(again.best_time_windows) = Range(old.best_time_windows)
                /\ Range(again.why_special_snippets) = Range(old.why_special_snippets)

\* C24: with interleaved calls that link different posts to the same
\* existing POI the last commit's aggregate stands and may leave out the
\* other call's signal, but no signal is lost; the next call for the POI that
\* runs alone commits the aggregation of all the POI's signals; and a
\* further recompute without new signals leaves the aggregate unchanged.
C24_RaceHealsAndRecomputeIsIdempotent ==
    /\ [][NoSignalLost /\ AloneRecomputeIsComplete]_vars
    /\ []RecomputeLeavesUnchanged

\* the same with the last part up to the order of the rows: the counts, the
\* warnings and the members of the lists are unchanged
C24_RaceHealsUpToRowOrder ==
    /\ [][NoSignalLost /\ AloneRecomputeIsComplete]_vars
    /\ []RecomputeLeavesContentUnchanged

\* two interleaved calls for p1 and p2 have both committed a signal for the
\* POI and the committed aggregate leaves one of them out
C24_WitnessStale ==
    /\ calls = 3
    /\ \A w \in Workers : sess[w].pc = "returned" /\ ~sess[w].alone /\ Len(sess[w].linked) = 1
    /\ { r.social_post_id : r \in SignalsOf(1) } = {"p1", "p2"}
    /\ Cardinality(SignalsOf(1)) = 3
    /\ Stale(1)

\* a call that ran alone is about to commit an aggregate of all four signals
\* over the stale one
C24_WitnessRestore ==
    \E w \in Workers :
        /\ sess[w].pc = "loop" /\ sess[w].idx > Len(sess[w].candidates) /\ sess[w].alone
        /\ Stale(1)
        /\ Cardinality(SignalsOf(1)) = 3
        /\ \E a \in sess[w].agg_writes : a.poi_id = 1 /\ a.aggregate_json.total_mentions = 4

\* a settled aggregate of signals of two posts whose tags tie
C24_WitnessSettled ==
    \E a \in poi_aggregates :
        /\ Settled(a) /\ calls = MaxRaceCalls
        /\ { r.social_post_id : r \in SignalsOf(a.poi_id) } = {"p1", "p2"}
        /\ a.aggregate_json.total_mentions = 4

\* C25: when a call commits a recomputed aggregate for a POI that was in
\* the table before, the POI's updated_at is the time of the recompute.
C25_PoiUpdatedAtRefreshed ==
    [][ \A w \in Workers : Commits(w) =>
            \A a \in sess[w].agg_writes :
                (\E old \in pois : old.id = a.poi_id) =>
                    \E poi \in pois' : poi.id = a.poi_id /\ poi.updated_at = a.updated_at ]_vars

\* the final rank score of a POI in a call: the base score, and with a user
\* identity and a retrieval that returned the adjustments of the memories
FinalScoreOf(p, args) ==
    LET memories == args.retrieval.memories
        boosts == { k \in DOMAIN memories :
                      memories[k].type = "preference" /\ WordInCombined(memories[k], p) }
        penalties == { k \in DOMAIN memories :
                         /\ memories[k].type = "constraint"
                         /\ WordInCombined(memories[k], p) \/ WordInWarnings(memories[k], p) }
    IN  IF args.user_id # "" /\ ~args.retrieval.raises
        THEN BaseScoreOf(p, args) + 3000 * Cardinality(boosts) - 5000 * Cardinality(penalties)
        ELSE BaseScoreOf(p, args)

\* the POIs that pass all filters of a call
CandidatesOf(args) ==
    { p \in PassOtherFilters(args) :
        ~(args.price_level_max # None /\ p.price_level # None
              /\ p.price_level > args.price_level_max) }

\* C26: the shortlist holds the min(2*max_results, number of candidates)
\* candidates of highest final rank score, in rank order; with must_be_open
\* the details lookups are a prefix of the shortlist (rank order, each POI
\* once), a lookup is made only while fewer than max_results examined POIs
\* were kept, and the loop stops early for no other reason; without
\* must_be_open there is no lookup; every suggestion is from the shortlist.
C26_DetailsOnlyForShortlist ==
    detour.called =>
        LET args == detour.args
            short == detour.shortlist
            queried == detour.details_calls
            Poi(g) == CHOOSE p \in pois : p.provider_place_id = g
        IN  /\ Len(short) = Min(Cardinality(CandidatesOf(args)), 2 * args.max_results)
            /\ \A i \in DOMAIN short :
                   /\ Poi(short[i]) \in CandidatesOf(args)
                   /\ \A j \in DOMAIN short : i < j =>
                          /\ short[i] # short[j]
                          /\ FinalScoreOf(Poi(short[i]), args) >= FinalScoreOf(Poi(short[j]), args)
                   /\ \A q \in CandidatesOf(args) :
                          q.provider_place_id \notin Range(short) =>
                              FinalScoreOf(Poi(short[i]), args) >= FinalScoreOf(q, args)
            /\ ~args.must_be_open => queried = <<>>
            /\ Len(queried) <= Len(short)
            /\ \A k \in DOMAIN queried :
                   /\ queried[k] = short[k]
                   /\ Len(NotClosed(SubSeq(queried, 1, k - 1), args.hours)) < args.max_results
            /\ (args.must_be_open /\ Len(queried) < Len(short)) =>
                   Len(NotClosed(queried, args.hours)) >= args.max_results
            /\ \A i \in DOMAIN detour.results :
                   PlaceIdOf(detour.results[i]) \in Range(short)

\* a must_be_open call for one suggestion with more candidates than the
\* shortlist takes: the first of the shortlist is closed, the second is
\* looked up and returned
C26_Witness ==
    /\ detour.called /\ detour.args.must_be_open /\ detour.args.max_results = 1
    /\ detour.corridor_candidates > Len(detour.shortlist)
    /\ Len(detour.shortlist) = 2 /\ Len(detour.details_calls) = 2
    /\ detour.args.hours[detour.shortlist[1]] = "closed"
    /\ Len(detour.results) = 1
    /\ PlaceIdOf(detour.results[1]) = detour.shortlist[2]

\* a must_be_open call that stopped before the end of its shortlist
C26_WitnessStopsEarly ==
    /\ detour.called /\ detour.args.must_be_open /\ detour.args.max_results = 1
    /\ Len(detour.shortlist) = 2 /\ Len(detour.details_calls) = 1
    /\ detour.args.hours[detour.shortlist[2]] = "closed"
    /\ Len(detour.results) = 1

\* the buckets some type of the list matches
BucketsMatched(types) ==
    { b \in DOMAIN InferBuckets :
        \E i \in DOMAIN types : \E k \in DOMAIN InferBuckets[b].keywords :
            Contains(Lower(types[i]), InferBuckets[b].keywords[k]) }

\* C27: the category of every suggestion is the first bucket, in the order
\* food, cafe, bar, dessert, viewpoint, shop, that some provider type of the
\* POI matches, and "other" when none matches; so it is the same for two
\* type lists that match the same buckets.
C27_CategoryIsFirstBucketMatched ==
    detour.called =>
        \A i \in DOMAIN detour.results :
            LET hits == BucketsMatched(PoiOf(detour.results[i]).categories)
            IN  detour.results[i].category =
                    IF hits = {} THEN "other"
                    ELSE InferBuckets[CHOOSE b \in hits : \A b2 \in hits : b <= b2].category

\* the proximity term as claimed, in thousandths, for a distance in metres:
\* 1.0 up to 5 km, then linear down to 0.0 at 50 km
ClaimedProximity(dist_m) ==
    IF dist_m <= 5000 THEN 1000
    ELSE IF dist_m >= 50000 THEN 0
    ELSE ((50000 - dist_m) * 1000) \div 45000

\* C28: with a location_bias the proximity term of score_match is 1.0 within
\* 5 km of the bias, falls linearly to 0.0 at 50 km and is 0.0 beyond;
\* without a location_bias it is 0.5; the composite lies in [0, 1].
C28_ProximityFullWithinFiveKm ==
    calc.done =>
        LET ns == name_similarity(calc.candidate_name, calc.place.name)
            cs == category_match_score(calc.candidate_category, calc.place.types)
            proximity == IF calc.location_bias = "" THEN 500
                         ELSE ClaimedProximity(haversine_km(calc.location_bias, calc.place.loc))
        IN  /\ calc.score = (ns * 5 + cs * 3 + proximity * 2) \div 10
            /\ calc.score >= 0 /\ calc.score <= 1000

\* what holds: the proximity term is max(0, 1 - km/50), so 1.0 only at the
\* bias itself and 0.9 at 5 km, and the composite lies in [0, 1]
C28_ProximityLinearFromZero ==
    calc.done =>
        LET ns == name_similarity(calc.candidate_name, calc.place.name)
            cs == category_match_score(calc.candidate_category, calc.place.types)
            dist_m == haversine_km(calc.location_bias, calc.place.loc)
            proximity == IF calc.location_bias = "" THEN 500
                         ELSE IF dist_m >= 50000 THEN 0
                         ELSE 1000 - dist_m \div 50
        IN  /\ calc.score = (ns * 5 + cs * 3 + proximity * 2) \div 10
            /\ calc.score >= 0 /\ calc.score <= 1000

\* every POI has a signal and exactly one aggregate; every signal and every
\* aggregate names a POI of the table
TablesConsistent ==
    /\ \A p \in pois :
           /\ \E r \in poi_signals : r.poi_id = p.id
           /\ Cardinality({ a \in poi_aggregates : a.poi_id = p.id }) = 1
    /\ \A r \in poi_signals : \E p \in pois : p.id = r.poi_id
    /\ \A a \in poi_aggregates : \E p \in pois : p.id = a.poi_id

\* C29: with calls run one at a time from empty tables, in every committed
\* state every POI has at least one POISignal and exactly one POIAggregate,
\* every POISignal and POIAggregate names an existing POI, and no step
\* removes a POI or removes or changes a POISignal.
C29_SerialTablesConsistentAndGrowing ==
    /\ []TablesConsistent
    /\ [][ /\ { p.id : p \in pois } \subseteq { p.id : p \in pois' }
           /\ poi_signals \subseteq poi_signals' ]_vars

\* after two calls the tables hold two POIs, one of them with two signals
\* and one aggregate counting both
C29_Witness ==
    /\ calls = 2 /\ \A w \in Workers : sess[w].pc = "idle"
    /\ Cardinality(pois) = 2
    /\ Cardinality(poi_aggregates) = 2
    /\ \E p \in pois :
           /\ Cardinality(SignalsOf(p.id)) = 2
           /\ \E a \in poi_aggregates : a.poi_id = p.id /\ a.aggregate_json.total_mentions = 2

\* worker w links its candidate to a POI that the lookup found
LinksExisting(w) ==
    sess[w].pc = "accepted" /\ sess[w].poi_id # 0 /\ sess'[w].pc = "loop"

\* the writes of such a step: no POI row, one new signal of that POI, and
\* the aggregate of that POI written once
LinkWritesSignalAndAggregate(w) ==
    LET s == sess[w]
        s2 == sess'[w]
    IN  /\ s2.new_pois = s.new_pois
        /\ \E r \in s2.new_signals \ s.new_signals :
               /\ s2.new_signals = s.new_signals \cup {r}
               /\ r.poi_id = s.poi_id
        /\ { a \in s2.agg_writes : a.poi_id # s.poi_id }
               = { a \in s.agg_writes : a.poi_id # s.poi_id }
        /\ Cardinality({ a \in s2.agg_writes : a.poi_id = s.poi_id }) = 1
        /\ UNCHANGED <<social_extractions, pois, poi_signals, poi_aggregates>>

\* the attributes of a POI row that a place-search result fills
Attributes(p) ==
    <<p.name, p.loc, p.address, p.categories, p.price_level, p.rating, p.user_ratings_total>>

\* C30: a match accepted for an existing POI leaves the POI's stored
\* attributes as they were, also when the search result carries other
\* values; the step writes one new POISignal and the POI's aggregate, and
\* nothing else.
C30_ExistingPoiKeepsAttributes ==
    /\ [](\A p \in pois : p.provider_place_id = "g1" =>
              Attributes(p) = Attributes(NewPOI(1, PlaceGoodBefore, 0)))
    /\ [][ /\ \A w \in Workers : LinksExisting(w) => LinkWritesSignalAndAggregate(w)
           /\ pois \subseteq pois' ]_vars

\* a call matched the search result of g1, whose values differ from the
\* stored ones, and committed: the POI holds two signals, an aggregate of
\* two mentions and its first attributes
C30_Witness ==
    /\ \E w \in Workers :
           /\ sess[w].pc = "returned"
           /\ \E l \in 1..Len(sess[w].linked) :
                  /\ sess[w].linked[l].poi_id = 1
                  /\ sess[w].linked[l].name = PlaceGood.name
    /\ Attributes(NewPOI(1, PlaceGood, 0)) # Attributes(NewPOI(1, PlaceGoodBefore, 0))
    /\ NewPOI(1, PlaceGoodBefore, 0) \in pois
    /\ Cardinality(SignalsOf(1)) = 2
    /\ \E a \in poi_aggregates : a.poi_id = 1 /\ a.aggregate_json.total_mentions = 2

====
